---- MODULE Spec2Model ----
(***************************************************************************)
(* A model of the wasm-tools text/binary toolchain core:                   *)
(*   - the peephole mutation engine (wasm-mutate, mutators/peephole),      *)
(*   - the type-use expander of the text resolver (wast, resolve/types),   *)
(*   - the component front end (wast, ast/component),                      *)
(*   - the module binary encoder (wast, binary),                           *)
(*   - the type productions of the parser (wast, ast/deftype),             *)
(*   - the script directives (wast, wast),                                 *)
(*   - the inline import (wast, ast/import).                               *)
(* Each part has its own specification over its own group of variables;    *)
(* the other groups stay at their idle value.                              *)
(***************************************************************************)
EXTENDS Integers, Sequences, FiniteSets, TLC

\* ------------------------------------------------------------------------
\* Bounds
\* ------------------------------------------------------------------------
MaxComponentFields == 2   \* fields in a text component
MaxModuleFields == 3      \* fields in a text module handed to the encoder
MaxNameFields == 2        \* fields in a text module whose names are encoded
MaxLocals == 4            \* locals of a function
MaxParams == 2            \* parameters of a function type
MaxLevels == 52           \* nested type productions in the parsed text
MaxTypeFields == 2        \* items between the parentheses of a type production
MaxImportTokens == 5      \* tokens of the text an inline import is looked for in
MaxDirectives == 1        \* directives in a parsed script
MaxResults == 1           \* parenthesised items after the action of a directive
MaxFields == 3      \* fields in the module handed to expand
MaxFuncs == 2       \* functions in a code section
MaxOps == 3         \* operators in a code section, over all its functions
RndRange == 3       \* raw values the random source can return

None == "None"

Range(s) == {s[i] : i \in 1..Len(s)}

SeqsUpTo(S, n) == UNION {[1..k -> S] : k \in 0..n}

\* ========================================================================
\* Part 1.  PeepholeMutator (wasm-mutate/src/mutators/peephole/mod.rs)
\* ========================================================================

VARIABLES
    code_section,        \* info.get_code_section(): header state and bodies
    peep_optimizers,     \* the registered code mutators, in registration order
    mpc,                 \* position inside PeepholeMutator::mutate
    function_count,      \* sectionreader.get_count()
    function_to_mutate,  \* the rotation start drawn at line 37
    pending,             \* functions of the rotation chain not yet folded
    visited,             \* (fidx, idx) positions asked so far, in scan order
    applicable,          \* HashMap<String, Vec<(fidx, idx)>>
    selected,            \* the (function, operator index, mutator) of line 83
    codes,               \* the CodeSection being built
    result,              \* what mutate returned (or that it panicked)
    module,              \* the Module of the Ok result
    rnd,                 \* the seeded random source: its outputs and position
    run,                 \* 1 for the first mutate call, 2 for the repeated one
    prev                 \* what the first call selected and returned

mvars == <<code_section, peep_optimizers, mpc, function_count,
           function_to_mutate, pending, visited, applicable, selected, codes,
           result, module, rnd, run, prev>>

\* Part 2, the type-use expander (wast/src/resolve/types.rs)
VARIABLES
    fields,       \* the module's field list, expanded in place
    given,        \* the field list as it was handed to the first expand
    epc,          \* position inside expand / Expander::process
    cur,          \* the cursor of the loop of process that is running
    expander,     \* the Expander: func_type_to_idx, to_prepend, gensym
    pass,         \* 1 for the first expand of the list, 2 for the second
    first         \* the field list as the first expand left it

evars == <<fields, given, epc, cur, expander, pass, first>>

\* Part 3, the component front end (wast/src/ast/component.rs)
VARIABLES
    component,    \* the Component: its kind, fields or bytes
    cresult       \* the last operation on it and what it returned

cvars == <<component, cresult>>

\* Part 4, the module encoder (wast/src/binary.rs)
VARIABLES
    text_module,  \* the Module handed to encode_module
    wasm,         \* the encoder's output
    id_in,        \* the Id handed to Id::encode
    id_out        \* what Id::encode did with it

bvars == <<text_module, wasm, id_in, id_out>>

\* Part 5, the type productions of the parser (wast/src/ast/deftype.rs)
VARIABLES
    tokens,       \* the input from the cursor on: what each "(" opens
    ppos,         \* how many of them the parser has consumed
    open_parens,  \* the parentheses the parser is inside of, innermost last
    entered,      \* depth, position and kind at the last type production
    presult       \* None while parsing, then Ok or the error

pvars == <<tokens, ppos, open_parens, entered, presult>>

\* Part 6, the script directives (wast/src/wast.rs)
VARIABLES
    wast_source,  \* the directives of the parsed text, in order
    directives,   \* Wast::directives as pushed so far
    wresult       \* None while parsing, then Ok or Err

wvars == <<wast_source, directives, wresult>>

vars == <<mvars, evars, cvars, bvars, pvars, wvars>>

\* The code mutators that can be registered.  The source registers
\* SwapCommutativeOperator; CodeMutator is a trait, and the engine groups
\* sites by mutator name, so a second implementor is part of the input.
SwapCommutativeOperator == "SwapCommutativeOperator"
OtherCodeMutator == "OtherCodeMutator"

\* A function body decodes, or the body itself does not decode, or its
\* operator stream does not.
Decodes == "decodes"
BadBody == "BadBody"
BadOps == "BadOps"

Body(state, ops) == [state |-> state, operators |-> ops]

\* The sequences of k function bodies with at most n operators in all; a
\* body decodes and has operators, or is one of the two that do not decode.
RECURSIVE BodySeqs(_, _, _)
BodySeqs(ms, k, n) ==
    IF k = 0 THEN {<<>>}
    ELSE UNION {{<<b>> \o rest : rest \in BodySeqs(ms, k - 1, n - Len(b.operators))} :
                b \in {Body(Decodes, ops) : ops \in SeqsUpTo(SUBSET Range(ms), n)}
                      \cup {Body(BadBody, <<>>), Body(BadOps, <<>>)}}

\* CodeMutator::can_mutate at operator index `at`.
CanMutate(peephole, operators, at) == peephole \in operators[at + 1]

\* A scan that stops at the end instead of wrapping around.
RotationNoWrap(start, count) == [i \in 1..(count - start) |-> start + i - 1]

\* A scan that starts at the first index whatever was drawn.
RotationFromZero(start, count) == [i \in 1..count |-> i - 1]

\* (start..count).chain(0..start)
Rotation(start, count) == [i \in 1..count |-> (start + i - 1) % count]

\* rnd.gen_range(0, n) on the raw output `raw` of the generator.
GenRange(raw, n) == raw % n

\* The random source is a seeded generator: its outputs are a function of
\* the seed and of the number of draws made.  `tape` holds the outputs the
\* seed has produced so far; it is kept when the caller will seed a second
\* generator with the same seed (`keep`).
\* The raw outputs the generator can give at its current position: a fixed
\* value when the seed has already produced it, any value otherwise.
RawDraws(r) == IF r.pos < Len(r.tape) THEN {r.tape[r.pos + 1]} ELSE 0..(RndRange - 1)

Advance(r, raw) ==
    [r EXCEPT !.tape = IF r.pos < Len(r.tape) \/ ~r.keep THEN r.tape
                       ELSE Append(r.tape, raw),
              !.pos = r.pos + 1]

\* applicable.entry(name).or_insert(Vec::new()).push(site)
EntryPush(app, name, site) ==
    IF name \in DOMAIN app
    THEN [app EXCEPT ![name] = Append(@, site)]
    ELSE app @@ (name :> <<site>>)

\* A scan that records a site without asking can_mutate.
RECURSIVE ForPeepholesUnasked(_, _, _, _, _)
ForPeepholesUnasked(app, k, fidx, operators, idx) ==
    IF k > Len(peep_optimizers) THEN app
    ELSE ForPeepholesUnasked(EntryPush(app, peep_optimizers[k], <<fidx, idx>>),
                             k + 1, fidx, operators, idx)

\* for peephole in peep_optimizers { if can_mutate { push } }, from the k-th
RECURSIVE ForPeepholes(_, _, _, _, _)
ForPeepholes(app, k, fidx, operators, idx) ==
    IF k > Len(peep_optimizers) THEN app
    ELSE LET peephole == peep_optimizers[k]
             next == IF CanMutate(peephole, operators, idx)
                     THEN EntryPush(app, peephole, <<fidx, idx>>)
                     ELSE app
         IN ForPeepholes(next, k + 1, fidx, operators, idx)

\* the inner fold over the rotated operator indices
RECURSIVE FoldOperators(_, _, _, _)
FoldOperators(app, fidx, operators, order) ==
    IF order = <<>> THEN app
    ELSE FoldOperators(ForPeepholes(app, 1, fidx, operators, Head(order)),
                       fidx, operators, Tail(order))

EmptyMap == [n \in {} |-> <<>>]

NoSelection == <<>>

MutateIdle ==
    /\ mpc = "idle"
    /\ function_count = 0
    /\ function_to_mutate = 0
    /\ pending = <<>>
    /\ visited = <<>>
    /\ applicable = EmptyMap
    /\ selected = NoSelection
    /\ codes = <<>>
    /\ result = None
    /\ module = [present |-> FALSE, code |-> <<>>]

MutateInputs ==
    /\ peep_optimizers \in {<<SwapCommutativeOperator>>,
                           <<SwapCommutativeOperator, OtherCodeMutator>>}
    /\ code_section \in
          {[header |-> FALSE, funcs |-> <<>>]} \cup
          {[header |-> TRUE, funcs |-> fs] :
              fs \in UNION {BodySeqs(peep_optimizers, k, MaxOps) : k \in 0..MaxFuncs}}
    /\ MutateIdle
    /\ run = 1
    /\ prev = [result |-> None, selected |-> NoSelection]

Finish(res) ==
    /\ mpc' = "done"
    /\ result' = res

\* PeepholeMutator::can_mutate (lines 108-114): info.has_code() &&
\* info.function_count > 0, for the module whose code section mutate reads.
PeepholeCanMutate == Len(code_section.funcs) > 0

\* Lines 29-40: read the section header, draw the starting function, read
\* every function body.
MutateStart ==
    /\ UNCHANGED <<evars, cvars, bvars, pvars, wvars>>
    /\ mpc = "idle"
    /\ IF ~code_section.header
       THEN \* CodeSectionReader::new(..)? fails
            /\ Finish("DecodeError")
            /\ UNCHANGED <<function_count, function_to_mutate, pending, rnd>>
       ELSE /\ function_count' = Len(code_section.funcs)
            /\ IF Len(code_section.funcs) = 0
               THEN \* gen_range(0, 0)
                    /\ Finish("Panic")
                    /\ UNCHANGED <<function_to_mutate, pending, rnd>>
               ELSE \E raw \in RawDraws(rnd) :
                    /\ rnd' = Advance(rnd, raw)
                    /\ function_to_mutate' = GenRange(raw, Len(code_section.funcs))
                    /\ IF \E i \in 1..Len(code_section.funcs) :
                            code_section.funcs[i].state = BadBody
                       THEN \* sectionreader.read().unwrap()
                            /\ Finish("Panic")
                            /\ UNCHANGED pending
                       ELSE /\ mpc' = "scan"
                            /\ pending' = Rotation(function_to_mutate',
                                                   Len(code_section.funcs))
                            /\ UNCHANGED result
    /\ UNCHANGED <<code_section, peep_optimizers, visited, applicable, selected,
                   codes, module, run, prev>>

\* Lines 48-72: one iteration of the outer fold.
ScanFunction ==
    /\ UNCHANGED <<evars, cvars, bvars, pvars, wvars>>
    /\ mpc = "scan"
    /\ pending # <<>>
    /\ LET fidx == Head(pending)
           reader == code_section.funcs[fidx + 1]
           operators == reader.operators
       IN IF reader.state = BadOps
          THEN \* get_operators_reader().unwrap() / collect(..).unwrap()
               /\ Finish("Panic")
               /\ UNCHANGED <<pending, visited, applicable, rnd>>
          ELSE IF Len(operators) = 0
          THEN \* gen_range(0, 0)
               /\ Finish("Panic")
               /\ UNCHANGED <<pending, visited, applicable, rnd>>
          ELSE \E raw \in RawDraws(rnd) :
               LET operatorscount == Len(operators)
                   opcode_to_mutate == GenRange(raw, operatorscount)
                   order == Rotation(opcode_to_mutate, operatorscount)
               IN /\ rnd' = Advance(rnd, raw)
                  /\ applicable' = FoldOperators(applicable, fidx, operators, order)
                  /\ visited' = visited \o [i \in 1..Len(order) |-> <<fidx, order[i]>>]
                  /\ pending' = Tail(pending)
                  /\ mpc' = IF Tail(pending) = <<>> THEN "select" ELSE "scan"
                  /\ UNCHANGED result
    /\ UNCHANGED <<code_section, peep_optimizers, function_count,
                   function_to_mutate, selected, codes, module, run, prev>>

\* The orders in which a HashMap with these keys can iterate them: the
\* default hasher is keyed at random, so every order is possible.
KeyOrders(keys) ==
    {s \in [1..Cardinality(keys) -> keys] : Range(s) = keys}

\* Lines 77-83: the not-applicable outcome, or the choice of a site.
\* applicable.keys().choose(rnd) is the element at a drawn index of the
\* map's iteration order, positions.choose(rnd) the one at a drawn index
\* of the list.
Select ==
    /\ UNCHANGED <<evars, cvars, bvars, pvars, wvars>>
    /\ mpc = "select"
    /\ IF DOMAIN applicable = {}
       THEN /\ Finish("NotMatchingPeepholes")
            /\ UNCHANGED <<selected, rnd>>
       ELSE \E order \in KeyOrders(DOMAIN applicable) :
            \E raw1 \in RawDraws(rnd) :
            \E raw2 \in RawDraws(Advance(rnd, raw1)) :
               LET mutatoridx == order[GenRange(raw1, Len(order)) + 1]
                   positions == applicable[mutatoridx]
                   site == positions[GenRange(raw2, Len(positions)) + 1]
               IN /\ rnd' = Advance(Advance(rnd, raw1), raw2)
                  /\ selected' = <<site[1], site[2], mutatoridx>>
                  /\ mpc' = "emit"
                  /\ UNCHANGED result
    /\ UNCHANGED <<code_section, peep_optimizers, function_count,
                   function_to_mutate, pending, visited, applicable, codes,
                   module, run, prev>>

\* A copy that takes the range of the first reader for every function.
RawFunctionFirstRange(fidx) == [kind |-> "raw", bytes |-> code_section.funcs[1]]

\* codes.raw(&code_section.data[reader.range()]): the original bytes
RawFunction(fidx) == [kind |-> "raw", bytes |-> code_section.funcs[fidx + 1]]

\* The body of the loop of lines 85-102 for function fidx.
EmitFunction(fidx) ==
    IF fidx = selected[1]
    THEN [kind |-> "function", of |-> fidx, at |-> selected[2], by |-> selected[3]]
    ELSE RawFunction(fidx)

\* Lines 85-105: rebuild the code section and replace it in the module.
Emit ==
    /\ UNCHANGED <<evars, cvars, bvars, pvars, wvars>>
    /\ mpc = "emit"
    /\ codes' = [i \in 1..function_count |-> EmitFunction(i - 1)]
    /\ module' = [present |-> TRUE, code |-> codes']
    /\ Finish("Ok")
    /\ UNCHANGED <<code_section, peep_optimizers, function_count,
                   function_to_mutate, pending, visited, applicable, selected,
                   rnd, run, prev>>

\* The caller seeds the random source with the same seed again and calls
\* mutate again on the same module (tests, lines 244-245).
Rerun ==
    /\ UNCHANGED <<evars, cvars, bvars, pvars, wvars>>
    /\ mpc = "done"
    /\ run = 1
    /\ prev' = [result |-> result, selected |-> selected]
    /\ run' = 2
    /\ rnd' = [rnd EXCEPT !.pos = 0]
    /\ mpc' = "idle"
    /\ function_count' = 0
    /\ function_to_mutate' = 0
    /\ pending' = <<>>
    /\ visited' = <<>>
    /\ applicable' = EmptyMap
    /\ selected' = NoSelection
    /\ codes' = <<>>
    /\ result' = None
    /\ module' = [present |-> FALSE, code |-> <<>>]
    /\ UNCHANGED <<code_section, peep_optimizers>>

MutateNext ==
    \/ MutateStart
    \/ ScanFunction
    \/ Select
    \/ Emit

SeededNext ==
    \/ MutateStart
    \/ ScanFunction
    \/ Select
    \/ Emit
    \/ Rerun

\* ========================================================================
\* Part 2.  The type-use expander (wast/src/resolve/types.rs)
\* ========================================================================

\* Option<T>: None is the empty sequence, Some(x) the sequence of x.
Nothing == <<>>
Some(x) == <<x>>
IsSome(o) == o # <<>>
Unwrap(o) == o[1]

I32 == "i32"
I64 == "i64"
F32 == "f32"

\* Id: a user identifier has generation 0, a gensym a positive one.
UserId(name) == [name |-> name, gen |-> 0]

\* Gensym::gen with the counter at n (resolve/gensym.rs).
GensymGen(n) == [name |-> "gensym", gen |-> n + 1]

IsGensym(id) == id.gen # 0

\* Index::Id
IndexId(id) == [tag |-> "Id", id |-> id]

\* ItemRef { idx, kind: type, visited }
ItemRef(idx, seen) == [idx |-> idx, visited |-> seen]

\* TypeUse { index, inline }
TypeUse(index, inline) == [index |-> index, inline |-> inline]

\* A parameter of a FunctionType: (id, name annotation, type); the name
\* annotation plays no part in expansion and is left out.
Param(id, ty) == [id |-> id, ty |-> ty]

FunctionType(params, results) == [params |-> params, results |-> results]

\* FunctionType::default()
FunctionTypeDefault == FunctionType(<<>>, <<>>)

\* () -> i32, the short block form
FtResult == FunctionType(<<>>, <<I32>>)
\* (i32) -> (), parameter unnamed
FtParam == FunctionType(<<Param(Nothing, I32)>>, <<>>)
\* (i32) -> (), parameter named $x: the same shape in different text
FtParamNamed == FunctionType(<<Param(Some(UserId("$x")), I32)>>, <<>>)

\* A key that keeps the parameter ids: the same shape written with other
\* names is another key.
KeyWithNames(ft) == <<ft.params, ft.results>>

\* FunctionType::key (lines 257-261): parameter types and results.
Key(ft) == <<[i \in 1..Len(ft.params) |-> ft.params[i].ty], ft.results>>

\* FuncKey::to_def (lines 271-276)
ToDef(key) ==
    [tag |-> "Func",
     ty |-> FunctionType([i \in 1..Len(key[1]) |-> Param(Nothing, key[1][i])], key[2])]

FuncDef(ft) == [tag |-> "Func", ty |-> ft]

\* ModuleField variants.  The universe below adds a tag, a global and a
\* memory; the memory stands for the fields expand leaves alone (table,
\* memory, start, export, custom).
TypeField(id, def) == [kind |-> "Type", id |-> id, def |-> def]
FuncField(ty, instrs) == [kind |-> "Func", ty |-> ty, instrs |-> instrs]
ImportField(itemkind, ty) == [kind |-> "Import", item |-> [kind |-> itemkind, ty |-> ty]]

\* Instructions: Block stands for block, if, loop, let and try.
Instr(op, ty) == [op |-> op, ty |-> ty]

TypeT == Some(ItemRef(IndexId(UserId("$t")), FALSE))

\* An insert that replaces the entry of a key that is already there.
KeyInsertOverwrite(map, key, idx) ==
    [k \in DOMAIN map \cup {key} |-> IF k = key THEN idx ELSE map[k]]

\* FuncKey::insert (lines 278-280): entry(key).or_insert(idx)
KeyInsert(map, key, idx) ==
    IF key \in DOMAIN map THEN map ELSE map @@ (key :> idx)

\* Expander::key_to_idx (lines 218-237)
KeyToIdx(ex, key) ==
    IF key \in DOMAIN ex.func_type_to_idx
    THEN [ex |-> ex, idx |-> ex.func_type_to_idx[key]]
    ELSE LET id == GensymGen(ex.gensym)
         IN [ex |-> [func_type_to_idx |->
                         KeyInsert(ex.func_type_to_idx, key, IndexId(id)),
                     to_prepend |->
                         Append(ex.to_prepend, TypeField(Some(id), ToDef(key))),
                     gensym |-> ex.gensym + 1],
             idx |-> IndexId(id)]

\* A type-use expansion that trusts the inline signature more than the
\* index: a use with both is interned again by its signature.
ExpandTypeUseByInline(ex, item) ==
    IF IsSome(item.index) /\ ~IsSome(item.inline)
    THEN [ex |-> ex,
          item |-> [item EXCEPT !.index = Some([Unwrap(@) EXCEPT !.visited = TRUE])]]
    ELSE LET key == IF IsSome(item.inline) THEN Key(Unwrap(item.inline))
                    ELSE Key(FunctionTypeDefault)
             r == KeyToIdx(ex, key)
         IN [ex |-> r.ex,
             item |-> [item EXCEPT !.index = Some(ItemRef(r.idx, TRUE))]]

\* Expander::expand_type_use (lines 191-216)
ExpandTypeUse(ex, item) ==
    IF IsSome(item.index)
    THEN [ex |-> ex,
          item |-> [item EXCEPT !.index = Some([Unwrap(@) EXCEPT !.visited = TRUE])]]
    ELSE LET key == IF IsSome(item.inline) THEN Key(Unwrap(item.inline))
                    ELSE Key(FunctionTypeDefault)
             r == KeyToIdx(ex, key)
         IN [ex |-> r.ex,
             item |-> [item EXCEPT !.index = Some(ItemRef(r.idx, TRUE))]]

\* A block policy that takes only a single result for the short form.
ExpandInstrOneResult(ex, instr) ==
    IF instr.op = "Block"
    THEN IF IsSome(instr.ty.index)
         THEN [ex |-> ex, item |-> instr]
         ELSE IF IsSome(instr.ty.inline)
         THEN IF /\ Len(Unwrap(instr.ty.inline).params) = 0
                 /\ Len(Unwrap(instr.ty.inline).results) = 1
              THEN [ex |-> ex, item |-> instr]
              ELSE LET r == ExpandTypeUse(ex, instr.ty)
                   IN [ex |-> r.ex, item |-> [instr EXCEPT !.ty = r.item]]
         ELSE [ex |-> ex,
               item |-> [instr EXCEPT !.ty.inline = Some(FunctionTypeDefault)]]
    ELSE IF instr.op \in {"FuncBind", "CallIndirect", "ReturnCallIndirect"}
    THEN LET r == ExpandTypeUse(ex, instr.ty)
         IN [ex |-> r.ex, item |-> [instr EXCEPT !.ty = r.item]]
    ELSE [ex |-> ex, item |-> instr]

\* A block policy that leaves a block type without index and signature
\* as it is.
ExpandInstrNoDefault(ex, instr) ==
    IF instr.op = "Block"
    THEN IF IsSome(instr.ty.index)
         THEN [ex |-> ex, item |-> instr]
         ELSE IF IsSome(instr.ty.inline)
         THEN IF /\ Len(Unwrap(instr.ty.inline).params) = 0
                 /\ Len(Unwrap(instr.ty.inline).results) <= 1
              THEN [ex |-> ex, item |-> instr]
              ELSE LET r == ExpandTypeUse(ex, instr.ty)
                   IN [ex |-> r.ex, item |-> [instr EXCEPT !.ty = r.item]]
         ELSE [ex |-> ex, item |-> instr]
    ELSE IF instr.op \in {"FuncBind", "CallIndirect", "ReturnCallIndirect"}
    THEN LET r == ExpandTypeUse(ex, instr.ty)
         IN [ex |-> r.ex, item |-> [instr EXCEPT !.ty = r.item]]
    ELSE [ex |-> ex, item |-> instr]

\* Expander::expand_instr (lines 142-189)
ExpandInstr(ex, instr) ==
    IF instr.op = "Block"
    THEN IF IsSome(instr.ty.index)
         THEN [ex |-> ex, item |-> instr]
         ELSE IF IsSome(instr.ty.inline)
         THEN IF /\ Len(Unwrap(instr.ty.inline).params) = 0
                 /\ Len(Unwrap(instr.ty.inline).results) <= 1
              THEN [ex |-> ex, item |-> instr]
              ELSE LET r == ExpandTypeUse(ex, instr.ty)
                   IN [ex |-> r.ex, item |-> [instr EXCEPT !.ty = r.item]]
         ELSE [ex |-> ex,
               item |-> [instr EXCEPT !.ty.inline = Some(FunctionTypeDefault)]]
    ELSE IF instr.op \in {"FuncBind", "CallIndirect", "ReturnCallIndirect"}
    THEN LET r == ExpandTypeUse(ex, instr.ty)
         IN [ex |-> r.ex, item |-> [instr EXCEPT !.ty = r.item]]
    ELSE [ex |-> ex, item |-> instr]

\* Expander::expand_expression (lines 136-140), with the instructions
\* already expanded in `done`
RECURSIVE ExpandExpression(_, _, _)
ExpandExpression(ex, done, instrs) ==
    IF instrs = <<>> THEN [ex |-> ex, item |-> done]
    ELSE LET r == ExpandInstr(ex, Head(instrs))
         IN ExpandExpression(r.ex, Append(done, r.item), Tail(instrs))

\* Expander::expand_item_sig (lines 127-134)
ExpandItemSig(ex, item) ==
    IF item.kind \in {"Func", "Tag"}
    THEN LET r == ExpandTypeUse(ex, item.ty)
         IN [ex |-> r.ex, item |-> [item EXCEPT !.ty = r.item]]
    ELSE [ex |-> ex, item |-> item]

\* expand sets it to false and nothing changes it (line 7).
process_imports_early == FALSE

\* Gensym::fill: the id of the slot, a fresh gensym when the slot is empty.
GensymFill(n, slot) ==
    IF IsSome(slot) THEN [gensym |-> n, id |-> Unwrap(slot)]
    ELSE [gensym |-> n + 1, id |-> GensymGen(n)]

\* A header expansion that registers a type definition under a fresh id
\* without writing the id into the definition.
ExpandHeaderNoFill(ex, item) ==
    IF item.kind = "Type"
    THEN LET f == GensymFill(ex.gensym, item.id)
             ex1 == [ex EXCEPT !.gensym = f.gensym]
         IN [ex |-> IF item.def.tag = "Func"
                    THEN [ex1 EXCEPT !.func_type_to_idx =
                              KeyInsert(@, Key(item.def.ty), IndexId(f.id))]
                    ELSE ex1,
             item |-> item]
    ELSE [ex |-> ex, item |-> item]

\* Expander::expand_header (lines 59-75)
ExpandHeader(ex, item) ==
    IF item.kind = "Type"
    THEN LET f == GensymFill(ex.gensym, item.id)
             ex1 == [ex EXCEPT !.gensym = f.gensym]
         IN [ex |-> IF item.def.tag = "Func"
                    THEN [ex1 EXCEPT !.func_type_to_idx =
                              KeyInsert(@, Key(item.def.ty), IndexId(f.id))]
                    ELSE ex1,
             item |-> [item EXCEPT !.id = Some(f.id)]]
    ELSE IF item.kind = "Import" /\ process_imports_early
    THEN LET r == ExpandItemSig(ex, item.item)
         IN [ex |-> r.ex, item |-> [item EXCEPT !.item = r.item]]
    ELSE [ex |-> ex, item |-> item]

\* Expander::expand (lines 77-125)
ExpandField(ex, item) ==
    IF item.kind = "Type" THEN [ex |-> ex, item |-> item]
    ELSE IF item.kind = "Import"
    THEN IF ~process_imports_early
         THEN LET r == ExpandItemSig(ex, item.item)
              IN [ex |-> r.ex, item |-> [item EXCEPT !.item = r.item]]
         ELSE [ex |-> ex, item |-> item]
    ELSE IF item.kind = "Func"
    THEN LET t == ExpandTypeUse(ex, item.ty)
             e == ExpandExpression(t.ex, <<>>, item.instrs)
         IN [ex |-> e.ex, item |-> [item EXCEPT !.ty = t.item, !.instrs = e.item]]
    ELSE IF item.kind \in {"Global", "Data", "Elem"}
    THEN LET e == ExpandExpression(ex, <<>>, item.instrs)
         IN [ex |-> e.ex, item |-> [item EXCEPT !.instrs = e.item]]
    ELSE IF item.kind = "Tag"
    THEN LET t == ExpandTypeUse(ex, item.ty)
         IN [ex |-> t.ex, item |-> [item EXCEPT !.ty = t.item]]
    ELSE [ex |-> ex, item |-> item]

\* Index resolution of a type reference against a field list: Index::Id
\* becomes Index::Num of the type definition that carries the id, counted
\* among the type definitions; an id that no type definition carries is an
\* error of resolution and nothing is encoded.
ResolveTypeIndex(fs, idx) ==
    LET types == {i \in 1..Len(fs) : fs[i].kind = "Type"}
        named == {i \in types : fs[i].id = Some(idx.id)}
    IN IF idx.tag = "Num" THEN Some(idx)
       ELSE IF named = {} THEN Nothing
       ELSE LET at == CHOOSE i \in named : \A j \in named : i <= j
            IN Some([tag |-> "Num",
                     n |-> Cardinality({i \in types : i < at})])

\* impl Encode for BlockType (binary.rs lines 875-898): which arm encodes
\* the block type, or the message of the panic.
EncodeBlockType(item) ==
    IF IsSome(item.index) /\ Unwrap(item.index).idx.tag = "Num"
    THEN "sleb index"
    ELSE IF ~IsSome(item.inline) THEN "function type not filled in"
    ELSE IF /\ Len(Unwrap(item.inline).params) = 0
            /\ Len(Unwrap(item.inline).results) = 0
    THEN "0x40"
    ELSE IF /\ Len(Unwrap(item.inline).params) = 0
            /\ Len(Unwrap(item.inline).results) = 1
    THEN "result type"
    ELSE "multi-value block types should have an index"

\* Expander { func_type_to_idx: HashMap::new(), to_prepend: Vec::new(),
\* gensym } (lines 6-11)
NewExpander(gensym) ==
    [func_type_to_idx |-> EmptyMap, to_prepend |-> <<>>, gensym |-> gensym]

ExpandOff ==
    /\ fields = <<>>
    /\ given = <<>>
    /\ epc = "off"
    /\ cur = 0
    /\ expander = NewExpander(0)
    /\ pass = 1
    /\ first = <<>>

\* expand (lines 5-13): a new Expander over the caller's gensym.
ExpandCall ==
    /\ UNCHANGED <<mvars, cvars, bvars, pvars, wvars>>
    /\ epc = "idle"
    /\ expander' = NewExpander(expander.gensym)
    /\ cur' = 0
    /\ epc' = "header"
    /\ UNCHANGED <<fields, given, pass, first>>

\* Lines 39-46: one iteration of the header loop of process.
HeaderStep ==
    /\ UNCHANGED <<mvars, cvars, bvars, pvars, wvars>>
    /\ epc = "header"
    /\ cur < Len(fields)
    /\ LET r == ExpandHeader(expander, fields[cur + 1])
       IN /\ fields' = SubSeq(fields, 1, cur) \o r.ex.to_prepend \o <<r.item>>
                       \o SubSeq(fields, cur + 2, Len(fields))
          /\ cur' = cur + Len(r.ex.to_prepend) + 1
          /\ expander' = [r.ex EXCEPT !.to_prepend = <<>>]
    /\ UNCHANGED <<given, epc, pass, first>>

\* Line 39: the header loop ends.
HeaderDone ==
    /\ UNCHANGED <<mvars, cvars, bvars, pvars, wvars>>
    /\ epc = "header"
    /\ cur >= Len(fields)
    /\ epc' = "body"
    /\ cur' = 0
    /\ UNCHANGED <<fields, given, expander, pass, first>>

\* Lines 53-55: one iteration of the body loop of process.
BodyStep ==
    /\ UNCHANGED <<mvars, cvars, bvars, pvars, wvars>>
    /\ epc = "body"
    /\ cur < Len(fields)
    /\ LET r == ExpandField(expander, fields[cur + 1])
       IN /\ fields' = [fields EXCEPT ![cur + 1] = r.item]
          /\ expander' = r.ex
    /\ cur' = cur + 1
    /\ UNCHANGED <<given, epc, pass, first>>

\* An end of process that puts the synthesized definitions in front.
BodyDoneInFront ==
    /\ UNCHANGED <<mvars, cvars, bvars, pvars, wvars>>
    /\ epc = "body"
    /\ cur >= Len(fields)
    /\ fields' = expander.to_prepend \o fields
    /\ expander' = [expander EXCEPT !.to_prepend = <<>>]
    /\ epc' = "done"
    /\ UNCHANGED <<given, cur, pass, first>>

\* Line 56: fields.extend(self.to_prepend.drain(..)), and expand returns.
BodyDone ==
    /\ UNCHANGED <<mvars, cvars, bvars, pvars, wvars>>
    /\ epc = "body"
    /\ cur >= Len(fields)
    /\ fields' = fields \o expander.to_prepend
    /\ expander' = [expander EXCEPT !.to_prepend = <<>>]
    /\ epc' = "done"
    /\ UNCHANGED <<given, cur, pass, first>>

\* The caller runs expand once more on the list it has expanded.
ExpandAgain ==
    /\ UNCHANGED <<mvars, cvars, bvars, pvars, wvars>>
    /\ epc = "done"
    /\ pass = 1
    /\ first' = fields
    /\ pass' = 2
    /\ epc' = "idle"
    /\ UNCHANGED <<fields, given, cur, expander>>

ExpandNext ==
    \/ ExpandCall
    \/ HeaderStep
    \/ HeaderDone
    \/ BodyStep
    \/ BodyDone
    \/ ExpandAgain

\* ========================================================================
\* Part 3.  The component front end (wast/src/ast/component.rs)
\* ========================================================================

\* ComponentField variants; `refs` are the indices the field holds (the
\* func and args of a start, the argument of an export, ...).
ComponentField(kind, refs) == [kind |-> kind, refs |-> refs]

\* ComponentKind::Text(fields) and ComponentKind::Binary(data)
TextComponent(fs) == [kind |-> "Text", fields |-> fs, bytes |-> <<>>]

NoResult == [op |-> None, status |-> None, bytes |-> <<>>]

ComponentOff ==
    /\ component = TextComponent(<<>>)
    /\ cresult = NoResult

\* bytes.iter().flat_map(|b| b.iter().cloned()).collect()
RECURSIVE Flatten(_)
Flatten(chunks) ==
    IF chunks = <<>> THEN <<>> ELSE Head(chunks) \o Flatten(Tail(chunks))

\* encode_component_fields (binary.rs lines 113-119): Vec::new()
EncodeComponentFields(fs) == <<>>

\* encode_component (binary.rs lines 10-17)
EncodeComponent(c) ==
    IF c.kind = "Text" THEN EncodeComponentFields(c.fields)
    ELSE Flatten(c.bytes)

\* Component::resolve (lines 51-55): nothing is resolved, Ok(()).
ComponentResolve ==
    /\ UNCHANGED <<mvars, evars, bvars, pvars, wvars>>
    /\ cresult' = [op |-> "resolve", status |-> "Ok", bytes |-> <<>>]
    /\ UNCHANGED component

\* Component::encode (lines 81-84): resolve, then encode_component.
ComponentEncode ==
    /\ UNCHANGED <<mvars, evars, bvars, pvars, wvars>>
    /\ cresult' = [op |-> "encode", status |-> "Ok",
                   bytes |-> EncodeComponent(component)]
    /\ UNCHANGED component

\* A count that is set to 1 by a start field, not incremented.
StartsNotAccumulated(c) ==
    IF c.kind = "Text" /\ \E i \in 1..Len(c.fields) : c.fields[i].kind = "Start"
    THEN 1
    ELSE 0

\* The start fields counted by validate (lines 87-94).
Starts(c) ==
    IF c.kind = "Text"
    THEN Cardinality({i \in 1..Len(c.fields) : c.fields[i].kind = "Start"})
    ELSE 0

\* Component::validate (lines 86-99)
ComponentValidate ==
    /\ UNCHANGED <<mvars, evars, bvars, pvars, wvars>>
    /\ cresult' = [op |-> "validate",
                   status |-> IF Starts(component) > 1
                              THEN "multiple start sections found" ELSE "Ok",
                   bytes |-> <<>>]
    /\ UNCHANGED component

ComponentNext ==
    \/ ComponentResolve
    \/ ComponentEncode
    \/ ComponentValidate

\* ========================================================================
\* Part 4.  The module encoder (wast/src/binary.rs)
\* ========================================================================

\* CustomPlace: BeforeFirst, Before(anchor), After(anchor), AfterLast
BeforeFirst == [pos |-> "BeforeFirst", anchor |-> None]
Before(anchor) == [pos |-> "Before", anchor |-> anchor]
After(anchor) == [pos |-> "After", anchor |-> anchor]
AfterLast == [pos |-> "AfterLast", anchor |-> None]

\* Instructions of a function body, as far as the encoder of sections
\* looks at them: the operator and, for block instructions, the label.
BodyInstr(op, label) == [op |-> op, label |-> label, label_name |-> Nothing]

\* Local { id, name, ty }
Local(id, ty) == [id |-> id, name |-> Nothing, ty |-> ty]

\* ModuleField variants, with the id and the @name annotation get_name
\* looks at.
Field(kind, id, name) == [kind |-> kind, id |-> id, name |-> name]

ImportOf(itemkind, id) ==
    [kind |-> "Import", id |-> id, name |-> Nothing, item |-> itemkind]

\* Func with FuncKind::Inline { locals, expression }; `params` are the ids
\* of the parameters of the inline type, when there is one.
InlineFunc(id, params, locals, instrs) ==
    [kind |-> "Func", id |-> id, name |-> Nothing, params |-> params,
     locals |-> locals, instrs |-> instrs]

CustomField(name, place) ==
    [kind |-> "Custom", id |-> Nothing, name |-> Nothing, custom |-> name,
     place |-> place]

\* ModuleKind::Text(fields) and ModuleKind::Binary(bytes)
TextModule(id, fs) == [kind |-> "Text", id |-> id, name |-> Nothing,
                       fields |-> fs, bytes |-> <<>>]

NotEncoded == [done |-> FALSE, header |-> <<>>, sections |-> <<>>, raw |-> <<>>]

\* Id::encode has not been called.
NoIdOut == [done |-> FALSE, status |-> None, bytes |-> None]

IdOff ==
    /\ id_in = UserId("$x")
    /\ id_out = NoIdOut

EncodeOff ==
    /\ text_module = TextModule(Nothing, <<>>)
    /\ wasm = NotEncoded
    /\ IdOff

\* CustomPlaceAnchor: the sections a custom section can be anchored to.
CustomPlaceAnchors ==
    {"Type", "Import", "Func", "Table", "Memory", "Global", "Export",
     "Start", "Elem", "Code", "Data", "Tag"}

\* Every CustomPlace.
CustomPlaces ==
    {BeforeFirst, AfterLast}
    \cup {Before(x) : x \in CustomPlaceAnchors}
    \cup {After(x) : x \in CustomPlaceAnchors}

\* A get_name that takes the name of any id.
GetNameAnyId(id, name) ==
    IF IsSome(name) THEN name
    ELSE IF IsSome(id) THEN Some(Unwrap(id).name)
    ELSE Nothing

\* get_name (lines 1257-1265): the @name annotation, else the id unless it
\* is a gensym.
GetName(id, name) ==
    IF IsSome(name) THEN name
    ELSE IF IsSome(id) /\ ~IsGensym(Unwrap(id)) THEN Some(Unwrap(id).name)
    ELSE Nothing

\* An index space that leaves the imports out.
NameSpaceNoImports(f) ==
    IF f.kind \in {"Import", "Export", "Start", "Custom"} THEN None
    ELSE f.kind

\* The index space find_module_names files a field under (lines 1054-1075);
\* None for the fields it skips.
NameSpace(f) ==
    IF f.kind = "Import" THEN f.item
    ELSE IF f.kind \in {"Export", "Start", "Custom"} THEN None
    ELSE f.kind

NameSpaces == {"Func", "Table", "Memory", "Global", "Tag", "Type", "Elem", "Data"}

\* The (index, name) pairs of a list of ids: the named ones, numbered from
\* `base` by position (lines 1104-1109 and 1115-1120).
RECURSIVE IndexedNames(_, _)
IndexedNames(ids, base) ==
    IF ids = <<>> THEN <<>>
    ELSE LET n == GetName(Head(ids).id, Head(ids).name)
         IN (IF IsSome(n) THEN <<<<base, Unwrap(n)>>>> ELSE <<>>)
            \o IndexedNames(Tail(ids), base + 1)

\* The parameters of the inline type of a function, as id/name pairs.
ParamIds(f) ==
    IF IsSome(f.params)
    THEN [i \in 1..Len(Unwrap(f.params)) |->
             [id |-> Unwrap(f.params)[i], name |-> Nothing]]
    ELSE <<>>

RECURSIVE LabelIds(_)
LabelIds(instrs) ==
    IF instrs = <<>> THEN <<>>
    ELSE (IF Head(instrs).op \in {"If", "Block", "Loop", "Try", "Let"}
          THEN <<[id |-> Head(instrs).label, name |-> Head(instrs).label_name]>>
          ELSE <<>>)
         \o LabelIds(Tail(instrs))

\* find_module_names (lines 1034-1150): the loop over the fields
RECURSIVE FindNames(_, _)
FindNames(ret, fs) ==
    IF fs = <<>> THEN ret
    ELSE LET f == Head(fs)
             k == NameSpace(f)
         IN IF k = None THEN FindNames(ret, Tail(fs))
            ELSE LET n == GetName(f.id, f.name)
                     i == ret.idx[k]
                     local_names == IF f.kind = "Func"
                                    THEN IndexedNames(ParamIds(f) \o f.locals, 0)
                                    ELSE <<>>
                     label_names == IF f.kind = "Func"
                                    THEN IndexedNames(LabelIds(f.instrs), 0)
                                    ELSE <<>>
                 IN FindNames(
                      [ret EXCEPT
                         !.lists[k] = IF IsSome(n) THEN Append(@, <<i, Unwrap(n)>>)
                                      ELSE @,
                         !.locals = IF local_names # <<>>
                                    THEN Append(@, <<i, local_names>>) ELSE @,
                         !.labels = IF label_names # <<>>
                                    THEN Append(@, <<i, label_names>>) ELSE @,
                         !.idx[k] = i + 1],
                      Tail(fs))

FindModuleNames(module_id, module_name, fs) ==
    FindNames([module |-> GetName(module_id, module_name),
               lists |-> [k \in NameSpaces |-> <<>>],
               idx |-> [k \in NameSpaces |-> 0],
               locals |-> <<>>,
               labels |-> <<>>], fs)

\* An is_empty that looks at the tag names too.
NamesIsEmptyWithTags(names) ==
    /\ ~IsSome(names.module)
    /\ \A k \in NameSpaces : names.lists[k] = <<>>
    /\ names.locals = <<>>
    /\ names.labels = <<>>

\* ModuleNames::is_empty (lines 1267-1282): tags are not looked at.
NamesIsEmpty(names) ==
    /\ ~IsSome(names.module)
    /\ names.lists["Func"] = <<>>
    /\ names.locals = <<>>
    /\ names.labels = <<>>
    /\ names.lists["Global"] = <<>>
    /\ names.lists["Memory"] = <<>>
    /\ names.lists["Table"] = <<>>
    /\ names.lists["Type"] = <<>>
    /\ names.lists["Data"] = <<>>
    /\ names.lists["Elem"] = <<>>

\* One subsection of the name section (lines 1288-1292), written when its
\* list is not empty.
Subsection(id, list) ==
    IF Len(list) > 0 THEN <<[id |-> id, data |-> list]>> ELSE <<>>

\* impl Encode for ModuleNames (lines 1284-1335)
EncodeNames(names) ==
    Subsection(0, names.module)
    \o Subsection(1, names.lists["Func"])
    \o Subsection(2, names.locals)
    \o Subsection(3, names.labels)
    \o Subsection(4, names.lists["Type"])
    \o Subsection(5, names.lists["Table"])
    \o Subsection(6, names.lists["Memory"])
    \o Subsection(7, names.lists["Global"])
    \o Subsection(8, names.lists["Elem"])
    \o Subsection(9, names.lists["Data"])

\* The fields of one kind, in field order (lines 39-54).
OfKind(fs, kind) == SelectSeq(fs, LAMBDA f : f.kind = kind)

\* Encoder::section (lines 227-232): a section id and its contents
Section(id, contents) == [id |-> id, tag |-> "section", contents |-> contents]

\* custom_sections that walks the custom sections from the last one.
CustomSectionsReversed(customs, place) ==
    LET at == SelectSeq(customs, LAMBDA entry : entry.place = place)
    IN [i \in 1..Len(at) |->
           [id |-> 0, tag |-> "custom", contents |-> at[Len(at) + 1 - i]]]

\* Encoder::custom_sections (lines 234-240)
CustomSections(customs, place) ==
    LET at == SelectSeq(customs, LAMBDA entry : entry.place = place)
    IN [i \in 1..Len(at) |-> [id |-> 0, tag |-> "custom", contents |-> at[i]]]

\* A section_list that leaves out the custom sections of an empty list.
SectionListIfPresent(customs, id, anchor, list) ==
    IF list # <<>>
    THEN CustomSections(customs, Before(anchor))
         \o <<Section(id, list)>>
         \o CustomSections(customs, After(anchor))
    ELSE <<>>

\* A section_list that emits the section of an empty list too.
SectionListAlways(customs, id, anchor, list) ==
    CustomSections(customs, Before(anchor))
    \o <<Section(id, list)>>
    \o CustomSections(customs, After(anchor))

\* Encoder::section_list (lines 242-248)
SectionList(customs, id, anchor, list) ==
    CustomSections(customs, Before(anchor))
    \o (IF list # <<>> THEN <<Section(id, list)>> ELSE <<>>)
    \o CustomSections(customs, After(anchor))

\* A contains_bulk_memory that looks at the first function only.
ContainsBulkMemoryFirstFunc(funcs) ==
    /\ funcs # <<>>
    /\ \E k \in 1..Len(funcs[1].instrs) :
          funcs[1].instrs[k].op \in {"MemoryInit", "DataDrop"}

\* A compression that counts a local into the run of its type wherever
\* that run is.
RECURSIVE CompressLocalsAnyRun(_, _)
CompressLocalsAnyRun(locals_compressed, locals) ==
    IF locals = <<>> THEN locals_compressed
    ELSE LET local == Head(locals)
             runs == {n \in 1..Len(locals_compressed) :
                         locals_compressed[n][2] = local.ty}
         IN IF runs # {}
            THEN CompressLocalsAnyRun(
                     [locals_compressed EXCEPT ![CHOOSE n \in runs : TRUE][1] = @ + 1],
                     Tail(locals))
            ELSE CompressLocalsAnyRun(
                     Append(locals_compressed, <<1, local.ty>>), Tail(locals))

\* impl Encode for Vec<Local> (lines 850-864): the loop over the locals
RECURSIVE CompressLocals(_, _)
CompressLocals(locals_compressed, locals) ==
    IF locals = <<>> THEN locals_compressed
    ELSE LET local == Head(locals)
             last == Len(locals_compressed)
         IN IF last > 0 /\ locals_compressed[last][2] = local.ty
            THEN CompressLocals(
                     [locals_compressed EXCEPT ![last][1] = @ + 1], Tail(locals))
            ELSE CompressLocals(
                     Append(locals_compressed, <<1, local.ty>>), Tail(locals))

\* impl Encode for Func (lines 827-842): locals, then the expression
EncodeFunc(f) ==
    [locals |-> CompressLocals(<<>>, f.locals), instrs |-> f.instrs]

EncodeFuncs(funcs) == [i \in 1..Len(funcs) |-> EncodeFunc(funcs[i])]

\* contains_bulk_memory (lines 98-110)
ContainsBulkMemory(funcs) ==
    \E i \in 1..Len(funcs) : \E k \in 1..Len(funcs[i].instrs) :
        funcs[i].instrs[k].op \in {"MemoryInit", "DataDrop"}

\* encode_module_fields (lines 19-96): the sections after the header
EncodeModuleFields(module_id, module_name, fs) ==
    LET customs == OfKind(fs, "Custom")
        funcs == OfKind(fs, "Func")
        start == OfKind(fs, "Start")
        data == OfKind(fs, "Data")
        names == FindModuleNames(module_id, module_name, fs)
    IN CustomSections(customs, BeforeFirst)
       \o SectionList(customs, 1, "Type", OfKind(fs, "Type"))
       \o SectionList(customs, 2, "Import", OfKind(fs, "Import"))
       \o SectionList(customs, 3, "Func", funcs)
       \o SectionList(customs, 4, "Table", OfKind(fs, "Table"))
       \o SectionList(customs, 5, "Memory", OfKind(fs, "Memory"))
       \o SectionList(customs, 13, "Tag", OfKind(fs, "Tag"))
       \o SectionList(customs, 6, "Global", OfKind(fs, "Global"))
       \o SectionList(customs, 7, "Export", OfKind(fs, "Export"))
       \o CustomSections(customs, Before("Start"))
       \o (IF start # <<>> THEN <<Section(8, <<start[1]>>)>> ELSE <<>>)
       \o CustomSections(customs, After("Start"))
       \o SectionList(customs, 9, "Elem", OfKind(fs, "Elem"))
       \o (IF ContainsBulkMemory(funcs) THEN <<Section(12, <<Len(data)>>)>> ELSE <<>>)
       \o SectionList(customs, 10, "Code", EncodeFuncs(funcs))
       \o SectionList(customs, 11, "Data", data)
       \o (IF ~NamesIsEmpty(names)
           THEN <<[id |-> 0, tag |-> "name", contents |-> EncodeNames(names)]>>
           ELSE <<>>)
       \o CustomSections(customs, AfterLast)

\* encode_module (lines 3-8)
EncodeModule ==
    /\ UNCHANGED <<mvars, evars, cvars, pvars, wvars>>
    /\ ~wasm.done
    /\ wasm' = IF text_module.kind = "Text"
               THEN [done |-> TRUE, header |-> <<0, 97, 115, 109, 1, 0, 0, 0>>,
                     sections |-> EncodeModuleFields(text_module.id,
                                      text_module.name, text_module.fields),
                     raw |-> <<>>]
               ELSE [done |-> TRUE, header |-> <<>>, sections |-> <<>>,
                     raw |-> Flatten(text_module.bytes)]
    /\ UNCHANGED <<text_module, id_in, id_out>>

\* impl Encode for Id (lines 1355-1360)
IdEncode(id) ==
    IF IsGensym(id)
    THEN [done |-> TRUE, status |-> "AssertionFailed", bytes |-> None]
    ELSE [done |-> TRUE, status |-> "Ok", bytes |-> id.name]

\* Id::encode is called on an Id.
EncodeId ==
    /\ UNCHANGED <<mvars, evars, cvars, pvars, wvars>>
    /\ ~id_out.done
    /\ id_out' = IdEncode(id_in)
    /\ UNCHANGED <<text_module, wasm, id_in>>

NamesNext ==
    \/ EncodeModule
    \/ EncodeId

EncodeNext ==
    \/ EncodeModule

\* ========================================================================
\* Part 5.  The type productions of the parser (wast/src/ast/deftype.rs)
\* ========================================================================

\* The nesting depth above which the type productions give up (lines 222,
\* 302, 374).
NestingLimit == 100

\* The productions that test the depth.
TypeKinds == {"module", "component", "instance"}

\* The text from the cursor on, as what each of its "(" opens: `outer`
\* parentheses of enclosing productions, then `levels` types nested in one
\* another, each followed by the `wrap` parentheses of the field that
\* holds the next one (lines 312, 385), then a module type or nothing.
\* The types are all component types, all instance types, or one inside
\* the other in turn.
\* The closing parentheses follow in reverse order.
Nest(outer, levels, wrap, pattern, leaf) ==
    [j \in 1..(outer + levels * (1 + wrap) + leaf) |->
        IF j <= outer THEN "open"
        ELSE LET q == j - outer - 1
                 level == (q \div (1 + wrap)) + 1
             IN IF level > levels THEN "module"
                ELSE IF q % (1 + wrap) # 0 THEN "open"
                ELSE IF pattern # "alternate" THEN pattern
                ELSE IF level % 2 = 1 THEN "component" ELSE "instance"]

NoEntry == [depth |-> 0, pos |-> 0, kind |-> None]

ParseOff ==
    /\ tokens = <<>>
    /\ ppos = 0
    /\ open_parens = <<>>
    /\ entered = NoEntry
    /\ presult = "Off"

\* Parser::parens_depth: the parentheses the parser is inside of.
ParensDepth == Len(open_parens)

\* A test that gives up at the limit itself.
TooDeepAtLimit(depth) == depth >= NestingLimit

\* parser.parens_depth() > 100 (lines 222, 302, 374)
TooDeep(depth) == depth > NestingLimit

\* The error of a production (lines 223, 303, 375).
TooDeepError(kind) ==
    CASE kind = "module" -> "module type nesting too deep"
      [] kind = "component" -> "component type nesting too deep"
      [] kind = "instance" -> "instance type nesting too deep"

\* ModuleType::parse, ComponentType::parse, InstanceType::parse up to the
\* keyword: the depth test, then parser.parens and the keyword
\* (lines 220-227, 300-307, 372-379).
ParseType ==
    /\ UNCHANGED <<mvars, evars, cvars, bvars, wvars>>
    /\ presult = None
    /\ ppos < Len(tokens)
    /\ tokens[ppos + 1] \in TypeKinds
    /\ entered' = [depth |-> ParensDepth, pos |-> ppos, kind |-> tokens[ppos + 1]]
    /\ IF TooDeep(ParensDepth)
       THEN /\ presult' = TooDeepError(tokens[ppos + 1])
            /\ UNCHANGED <<ppos, open_parens>>
       ELSE /\ open_parens' = Append(open_parens, tokens[ppos + 1])
            /\ ppos' = ppos + 1
            /\ UNCHANGED presult
    /\ UNCHANGED tokens

\* parser.parens of a field that holds a type (lines 312, 385), or of an
\* enclosing production.
ParseField ==
    /\ UNCHANGED <<mvars, evars, cvars, bvars, wvars>>
    /\ presult = None
    /\ ppos < Len(tokens)
    /\ tokens[ppos + 1] = "open"
    /\ open_parens' = Append(open_parens, "open")
    /\ ppos' = ppos + 1
    /\ UNCHANGED <<tokens, entered, presult>>

\* The closing parenthesis of the innermost production: parser.parens
\* returns (lines 234, 326, 394).
ParseClose ==
    /\ UNCHANGED <<mvars, evars, cvars, bvars, wvars>>
    /\ presult = None
    /\ ppos = Len(tokens)
    /\ open_parens # <<>>
    /\ open_parens' = SubSeq(open_parens, 1, Len(open_parens) - 1)
    /\ UNCHANGED <<tokens, ppos, entered, presult>>

\* The outermost production has returned.
ParseDone ==
    /\ UNCHANGED <<mvars, evars, cvars, bvars, wvars>>
    /\ presult = None
    /\ ppos = Len(tokens)
    /\ open_parens = <<>>
    /\ presult' = "Ok"
    /\ UNCHANGED <<tokens, ppos, open_parens, entered>>

ParseNext ==
    \/ ParseType
    \/ ParseField
    \/ ParseClose
    \/ ParseDone

\* The field loops of the three productions.  Here `tokens` are the items
\* that follow the keyword and the id of the production, up to its closing
\* parenthesis: an item is a parenthesised group with its keyword (`kw`),
\* "empty" for the group "()", or a token that is no parenthesis ("atom");
\* `ok` says whether the contents of the group parse as the field its
\* keyword announces.  `entered` records the cursor at the start of the
\* last iteration.
Item(kw, ok) == [kw |-> kw, ok |-> ok]

\* The keywords each loop has an arm for (lines 262-275, 313-321, 383-391).
FieldKeywords(kind) ==
    CASE kind = "module" -> {"func", "import", "export"}
      [] kind = "component" -> {"import", "export", "type", "alias"}
      [] kind = "instance" -> {"export", "type", "alias"}

\* parser.peek::<ast::LParen>() at the cursor (lines 311, 382)
PeekLParen == IF ppos < Len(tokens) THEN tokens[ppos + 1].kw # "atom" ELSE FALSE

\* One iteration of the loop of InstanceType::parse (lines 382-392): the
\* field of a known keyword is parsed; for any other group no arm runs and
\* the loop goes round with the cursor where it was.
InstanceTypeField ==
    /\ UNCHANGED <<mvars, evars, cvars, bvars, wvars>>
    /\ presult = None
    /\ open_parens = <<"instance">>
    /\ PeekLParen
    /\ entered' = [depth |-> ParensDepth, pos |-> ppos, kind |-> "instance"]
    /\ IF tokens[ppos + 1].kw \in FieldKeywords("instance")
       THEN IF tokens[ppos + 1].ok
            THEN ppos' = ppos + 1 /\ UNCHANGED presult
            ELSE presult' = "syntax error" /\ UNCHANGED ppos
       ELSE UNCHANGED <<ppos, presult>>
    /\ UNCHANGED <<tokens, open_parens>>

\* One iteration of the loop of ComponentType::parse (lines 311-324):
\* parser.parens around the arms.  For a group of another keyword no arm
\* runs and parens misses its closing parenthesis; "()" passes.
ComponentTypeField ==
    /\ UNCHANGED <<mvars, evars, cvars, bvars, wvars>>
    /\ presult = None
    /\ open_parens = <<"component">>
    /\ PeekLParen
    /\ entered' = [depth |-> ParensDepth, pos |-> ppos, kind |-> "component"]
    /\ IF tokens[ppos + 1].kw \in FieldKeywords("component")
       THEN IF tokens[ppos + 1].ok
            THEN ppos' = ppos + 1 /\ UNCHANGED presult
            ELSE presult' = "syntax error" /\ UNCHANGED ppos
       ELSE IF tokens[ppos + 1].kw = "empty"
       THEN ppos' = ppos + 1 /\ UNCHANGED presult
       ELSE presult' = "syntax error" /\ UNCHANGED ppos
    /\ UNCHANGED <<tokens, open_parens>>

\* One iteration of the loop of ModuleType::parse (lines 230-232):
\* ModuleTypeDef::parse (lines 261-279) on whatever is there.
ModuleTypeDef ==
    /\ UNCHANGED <<mvars, evars, cvars, bvars, wvars>>
    /\ presult = None
    /\ open_parens = <<"module">>
    /\ ppos < Len(tokens)
    /\ entered' = [depth |-> ParensDepth, pos |-> ppos, kind |-> "module"]
    /\ IF tokens[ppos + 1].kw \in FieldKeywords("module") /\ tokens[ppos + 1].ok
       THEN ppos' = ppos + 1 /\ UNCHANGED presult
       ELSE presult' = "syntax error" /\ UNCHANGED ppos
    /\ UNCHANGED <<tokens, open_parens>>

\* The loop of a production ends (lines 230, 311, 382) and parser.parens
\* wants the closing parenthesis (lines 234, 326, 394).
TypeFieldsEnd ==
    /\ UNCHANGED <<mvars, evars, cvars, bvars, wvars>>
    /\ presult = None
    /\ Len(open_parens) = 1
    /\ IF open_parens[1] = "module" THEN ppos = Len(tokens) ELSE ~PeekLParen
    /\ presult' = IF ppos = Len(tokens) THEN "Ok" ELSE "syntax error"
    /\ UNCHANGED <<tokens, ppos, open_parens, entered>>

FieldsNext ==
    \/ InstanceTypeField
    \/ ComponentTypeField
    \/ ModuleTypeDef
    \/ TypeFieldsEnd

\* ========================================================================
\* Part 6.  The script directives (wast/src/wast.rs)
\* ========================================================================

\* NanPattern::CanonicalNan and NanPattern::ArithmeticNan
CanonicalNan == "CanonicalNan"
ArithmeticNan == "ArithmeticNan"

\* V128Pattern::F32x4 and V128Pattern::F64x2 with their lanes.
F32x4(lanes) == [shape |-> "F32x4", lanes |-> lanes]
F64x2(lanes) == [shape |-> "F64x2", lanes |-> lanes]

\* The variants of AssertExpression that the directives build.
LegacyCanonicalNaN == [expr |-> "LegacyCanonicalNaN", pat |-> None]
LegacyArithmeticNaN == [expr |-> "LegacyArithmeticNaN", pat |-> None]
V128(pat) == [expr |-> "V128", pat |-> pat]

\* The keywords of the directives in the parsed texts; "func" is a module
\* field, not a directive.
LegacyNanKeywords ==
    {"assert_return_canonical_nan", "assert_return_canonical_nan_f32x4",
     "assert_return_canonical_nan_f64x2", "assert_return_arithmetic_nan",
     "assert_return_arithmetic_nan_f32x4", "assert_return_arithmetic_nan_f64x2"}

DirectiveKeywords ==
    LegacyNanKeywords \cup
        {"assert_return", "assert_return_func", "assert_exception", "func"}

WastOff ==
    /\ wast_source = <<>>
    /\ directives = <<>>
    /\ wresult = "Off"

\* The outcome of a parse function: the value, or an error, and the
\* parenthesised items it has left in the enclosing parenthesis.
ParseOk(value, left) == [ok |-> TRUE, value |-> value, left |-> left]
ParseErr == [ok |-> FALSE, value |-> None, left |-> 0]

\* parser.parens(f): f on the inner text, then the closing parenthesis,
\* which anything f has left makes an error.
Parens(outcome) ==
    IF outcome.ok /\ outcome.left > 0 THEN ParseErr ELSE outcome

\* parser.peek2::<WastDirectiveToken>() at the start of the text (line 24,
\* lines 38-49), on the keywords above.
LooksLikeDirectives ==
    IF wast_source = <<>> THEN FALSE
    ELSE wast_source[1].keyword \in DirectiveKeywords \ {"func"}

\* impl Parse for WastExecute (lines 273-290)
WastExecute(etext) ==
    IF etext[1] = "invoke"
    THEN ParseOk([type |-> "Invoke", name |-> etext[2]], 0)
    ELSE IF etext[1] = "get"
    THEN ParseOk([type |-> "Get", name |-> etext[2]], 0)
    ELSE ParseErr

\* WastDirective::AssertReturn { span, exec, results }
AssertReturn(exec, results) ==
    [type |-> "AssertReturn", exec |-> exec, results |-> results]

\* An arm that returns its results twice over.
DirectiveOfExecTwice(dtext, results) ==
    LET exec == Parens(WastExecute(dtext.exec))
    IN IF exec.ok
       THEN ParseOk(AssertReturn(exec.value, results \o results), dtext.rest)
       ELSE ParseErr

\* The arms of WastDirective::parse that build a directive from the action
\* alone (lines 173-235, 250-255): the keyword, the action in parentheses,
\* and the results the arm writes.
DirectiveOfExec(dtext, results) ==
    LET exec == Parens(WastExecute(dtext.exec))
    IN IF exec.ok
       THEN ParseOk(AssertReturn(exec.value, results), dtext.rest)
       ELSE ParseErr

\* impl Parse for WastDirective (lines 126-260), for the keywords above.
WastDirective(dtext) ==
    LET keyword == dtext.keyword
        exec == Parens(WastExecute(dtext.exec))
    IN CASE keyword = "assert_return" ->
              IF exec.ok
              THEN ParseOk(AssertReturn(exec.value,
                       [i \in 1..dtext.rest |-> [expr |-> "F32", pat |-> CanonicalNan]]), 0)
              ELSE ParseErr
         [] keyword = "assert_return_canonical_nan" ->
              DirectiveOfExec(dtext, <<LegacyCanonicalNaN>>)
         [] keyword = "assert_return_canonical_nan_f32x4" ->
              DirectiveOfExec(dtext, <<V128(F32x4(<<CanonicalNan, CanonicalNan,
                                           CanonicalNan, CanonicalNan>>))>>)
         [] keyword = "assert_return_canonical_nan_f64x2" ->
              DirectiveOfExec(dtext, <<V128(F64x2(<<CanonicalNan, CanonicalNan>>))>>)
         [] keyword = "assert_return_arithmetic_nan" ->
              DirectiveOfExec(dtext, <<LegacyArithmeticNaN>>)
         [] keyword = "assert_return_arithmetic_nan_f32x4" ->
              DirectiveOfExec(dtext, <<V128(F32x4(<<ArithmeticNan, ArithmeticNan,
                                           ArithmeticNan, ArithmeticNan>>))>>)
         [] keyword = "assert_return_arithmetic_nan_f64x2" ->
              DirectiveOfExec(dtext, <<V128(F64x2(<<ArithmeticNan, ArithmeticNan>>))>>)
         [] keyword = "assert_return_func" ->
              DirectiveOfExec(dtext, <<[expr |-> "RefFunc", pat |-> None]>>)
         [] keyword = "assert_exception" ->
              IF exec.ok
              THEN ParseOk([type |-> "AssertException", exec |-> exec.value,
                            results |-> <<>>], dtext.rest)
              ELSE ParseErr
         [] OTHER -> ParseErr

\* Wast::parse, one turn of the loop over the directives (lines 24-27):
\* the next parenthesis is parsed and pushed, or its error ends the parse.
WastParseDirective ==
    /\ UNCHANGED <<mvars, evars, cvars, bvars, pvars>>
    /\ wresult = None
    /\ LooksLikeDirectives
    /\ Len(directives) < Len(wast_source)
    /\ LET outcome == Parens(WastDirective(wast_source[Len(directives) + 1]))
       IN IF outcome.ok
          THEN /\ directives' = Append(directives, outcome.value)
               /\ UNCHANGED wresult
          ELSE /\ wresult' = "Err"
               /\ UNCHANGED directives
    /\ UNCHANGED wast_source

\* Wast::parse when no directive is in sight (lines 28-31): the text is
\* one inline module, which a directive among its fields makes an error.
WastParseInline ==
    /\ UNCHANGED <<mvars, evars, cvars, bvars, pvars>>
    /\ wresult = None
    /\ directives = <<>>
    /\ ~LooksLikeDirectives
    /\ IF \A i \in 1..Len(wast_source) : wast_source[i].keyword = "func"
       THEN /\ directives' = <<[type |-> "Wat", exec |-> None, results |-> <<>>]>>
            /\ wresult' = "Ok"
       ELSE /\ wresult' = "Err"
            /\ UNCHANGED directives
    /\ UNCHANGED wast_source

\* Wast::parse returns the directives (line 32).
WastDone ==
    /\ UNCHANGED <<mvars, evars, cvars, bvars, pvars>>
    /\ wresult = None
    /\ LooksLikeDirectives
    /\ Len(directives) = Len(wast_source)
    /\ wresult' = "Ok"
    /\ UNCHANGED <<wast_source, directives>>

WastNext ==
    \/ WastParseDirective
    \/ WastParseInline
    \/ WastDone

\* ========================================================================
\* Part 7.  The inline import (wast/src/ast/import.rs)
\* ========================================================================

\* Here `tokens` are the tokens at the cursor: "(", ")", the keyword
\* "import", a string literal ("string"), or anything else ("other").
TokenAt(toks, n) == IF n <= Len(toks) THEN toks[n] ELSE "end"

\* impl Peek for InlineImport (lines 157-179), on a cursor `pos` tokens
\* into the text.
InlineImportPeek(toks, pos) ==
    IF TokenAt(toks, pos + 1) # "(" THEN FALSE
    ELSE IF TokenAt(toks, pos + 2) # "import" THEN FALSE
    ELSE IF TokenAt(toks, pos + 3) # "string" THEN FALSE
    ELSE IF TokenAt(toks, pos + 4) = "string"
    THEN TokenAt(toks, pos + 5) = ")"
    ELSE TokenAt(toks, pos + 4) = ")"

\* impl Parse for InlineImport (lines 145-155): parens around the keyword
\* and two strings.  The result and the cursor after it; an error leaves
\* the cursor where it was.
InlineImportParse(toks, pos) ==
    IF /\ TokenAt(toks, pos + 1) = "("
       /\ TokenAt(toks, pos + 2) = "import"
       /\ TokenAt(toks, pos + 3) = "string"
       /\ TokenAt(toks, pos + 4) = "string"
       /\ TokenAt(toks, pos + 5) = ")"
    THEN [result |-> "Ok", pos |-> pos + 5]
    ELSE [result |-> "syntax error", pos |-> pos]

\* parser.peek::<InlineImport>(): `entered` keeps the answer and where the
\* cursor is after it.
PeekInlineImport ==
    /\ UNCHANGED <<mvars, evars, cvars, bvars, wvars>>
    /\ presult = None
    /\ entered = NoEntry
    /\ entered' = [depth |-> ParensDepth, pos |-> ppos,
                   kind |-> IF InlineImportPeek(tokens, ppos) THEN "peek true"
                            ELSE "peek false"]
    /\ UNCHANGED <<tokens, ppos, open_parens, presult>>

\* parser.parse::<InlineImport>() after the peek.
ParseInlineImport ==
    /\ UNCHANGED <<mvars, evars, cvars, bvars, wvars>>
    /\ presult = None
    /\ entered # NoEntry
    /\ presult' = InlineImportParse(tokens, ppos).result
    /\ ppos' = InlineImportParse(tokens, ppos).pos
    /\ UNCHANGED <<tokens, open_parens, entered>>

ImportNext ==
    \/ PeekInlineImport
    \/ ParseInlineImport

\* ========================================================================
\* Specifications
\* ========================================================================

MutateOff ==
    /\ peep_optimizers = <<SwapCommutativeOperator>>
    /\ code_section = [header |-> FALSE, funcs |-> <<>>]
    /\ MutateIdle
    /\ rnd = [tape |-> <<>>, pos |-> 0, keep |-> FALSE]
    /\ run = 1
    /\ prev = [result |-> None, selected |-> NoSelection]

\* One call of PeepholeMutator::mutate.
InitMutate ==
    /\ MutateInputs
    /\ rnd = [tape |-> <<>>, pos |-> 0, keep |-> FALSE]
    /\ ExpandOff
    /\ ComponentOff
    /\ EncodeOff
    /\ ParseOff
    /\ WastOff

Spec == InitMutate /\ [][MutateNext]_vars

\* A call of mutate and its repetition with the same seed.
InitSeeded ==
    /\ MutateInputs
    /\ rnd = [tape |-> <<>>, pos |-> 0, keep |-> TRUE]
    /\ ExpandOff
    /\ ComponentOff
    /\ EncodeOff
    /\ ParseOff
    /\ WastOff

SpecSeeded == InitSeeded /\ [][SeededNext]_vars

\* resolve, encode and validate on a component.
InitComponent ==
    LET
        \* The field kinds that refer to other items by index.
        ReferringKinds ==
            {"Export", "Start", "Instance", "Alias"}
        ComponentFieldUniverse ==
            {ComponentField(k, <<>>) :
                k \in {"Type", "Import", "Func", "Custom", "Module", "Component"}}
            \cup {ComponentField(k, <<i>>) :
                    k \in ReferringKinds, i \in {IndexId(UserId("$f")), [tag |-> "Num", n |-> 0]}}
    IN  /\ component \in
              {TextComponent(fs) : fs \in SeqsUpTo(ComponentFieldUniverse, MaxComponentFields)}
              \cup {[kind |-> "Binary", fields |-> <<>>, bytes |-> data] :
                      data \in {<<>>, <<<<0, 97>>, <<115, 109>>>>}}
        /\ cresult = NoResult
        /\ MutateOff
        /\ ExpandOff
        /\ EncodeOff
        /\ ParseOff
        /\ WastOff

SpecComponent == InitComponent /\ [][ComponentNext]_vars

\* encode_module on a module.
InitEncode ==
    LET
        \* The fields a text module handed to the encoder is made of.
        ModuleFieldUniverse ==
            { Field("Type", Nothing, Nothing),
              Field("Type", Some(GensymGen(0)), Nothing),
              ImportOf("Func", Some(UserId("$f"))),
              ImportOf("Memory", Nothing),
              InlineFunc(Nothing, Nothing, <<>>, <<BodyInstr("Nop", Nothing)>>),
              InlineFunc(Some(UserId("$g")), Some(<<Nothing>>),
                         <<Local(Nothing, I32), Local(Some(UserId("$l")), I32)>>,
                         <<BodyInstr("Block", Some(UserId("$b")))>>),
              InlineFunc(Nothing, Nothing, <<>>, <<BodyInstr("MemoryInit", Nothing)>>),
              Field("Table", Nothing, Nothing),
              Field("Memory", Nothing, Some("mem")),
              Field("Global", Some(UserId("$v")), Nothing),
              Field("Export", Nothing, Nothing),
              Field("Start", Nothing, Nothing),
              Field("Elem", Nothing, Nothing),
              Field("Data", Nothing, Nothing),
              Field("Tag", Some(UserId("$e")), Nothing),
              CustomField("a", BeforeFirst),
              CustomField("b", Before("Start")),
              CustomField("c", After("Type")),
              CustomField("d", AfterLast) }
    IN  /\ text_module \in
              {TextModule(id, fs) : id \in {Nothing, Some(UserId("$m"))},
                                    fs \in SeqsUpTo(ModuleFieldUniverse, MaxModuleFields)}
              \cup {[kind |-> "Binary", id |-> Nothing, name |-> Nothing,
                      fields |-> <<>>, bytes |-> data] :
                      data \in {<<>>, <<<<0, 97>>, <<115, 109>>>>}}
        /\ wasm = NotEncoded
        /\ IdOff
        /\ MutateOff
        /\ ExpandOff
        /\ ComponentOff
        /\ ParseOff
        /\ WastOff

SpecEncode == InitEncode /\ [][EncodeNext]_vars

\* encode_module on a module with custom sections.
InitCustom ==
    LET
        \* The fields of the modules whose custom sections are looked at: a few
        \* canonical fields and custom sections of many places, two of them of
        \* the same place.
        CustomFieldUniverse ==
            { Field("Type", Nothing, Nothing),
              InlineFunc(Nothing, Nothing, <<>>, <<BodyInstr("DataDrop", Nothing)>>),
              Field("Export", Nothing, Nothing),
              Field("Start", Nothing, Nothing),
              Field("Elem", Nothing, Nothing),
              Field("Data", Nothing, Nothing),
              CustomField("a", BeforeFirst),
              CustomField("b", Before("Start")),
              CustomField("b2", Before("Start")),
              CustomField("c", After("Type")),
              CustomField("d", AfterLast),
              CustomField("e", Before("Code")),
              CustomField("f", After("Elem")),
              CustomField("g", After("Memory")),
              CustomField("h", Before("Import")) }
    IN  /\ text_module \in
              {TextModule(Nothing, fs) :
                  fs \in SeqsUpTo(CustomFieldUniverse, MaxModuleFields)}
        /\ wasm = NotEncoded
        /\ IdOff
        /\ MutateOff
        /\ ExpandOff
        /\ ComponentOff
        /\ ParseOff
        /\ WastOff

SpecCustom == InitCustom /\ [][EncodeNext]_vars

\* encode_module on a module with names, and Id::encode on an Id.
InitNames ==
    LET
        \* The fields of the modules whose names are looked at: ids written by the
        \* user, gensyms, and @name annotations.
        NameFieldUniverse ==
            { Field("Type", Some(GensymGen(0)), Nothing),
              Field("Type", Some(GensymGen(1)), Some("ty")),
              ImportOf("Tag", Some(UserId("$it"))),
              ImportOf("Func", Some(GensymGen(2))),
              InlineFunc(Some(UserId("$g")), Nothing, <<>>, <<BodyInstr("Nop", Nothing)>>),
              InlineFunc(Some(GensymGen(3)), Some(<<Nothing, Some(UserId("$p"))>>),
                         <<Local(Some(GensymGen(4)), I32),
                           [id |-> Some(GensymGen(5)), name |-> Some("loc"), ty |-> I32]>>,
                         <<BodyInstr("Block", Some(GensymGen(6))),
                           [op |-> "Block", label |-> Some(GensymGen(7)),
                            label_name |-> Some("lab")],
                           BodyInstr("Loop", Some(UserId("$l")))>>),
              Field("Table", Nothing, Nothing),
              Field("Memory", Some(GensymGen(8)), Some("mem")),
              Field("Global", Some(UserId("$v")), Nothing),
              Field("Tag", Some(UserId("$e")), Nothing),
              Field("Tag", Nothing, Some("tag")),
              Field("Elem", Some(GensymGen(9)), Nothing),
              Field("Data", Some(UserId("$d")), Nothing),
              Field("Export", Nothing, Nothing) }
    IN  /\ text_module \in
              {TextModule(id, fs) :
                  id \in {Nothing, Some(UserId("$m")), Some(GensymGen(10))},
                  fs \in SeqsUpTo(NameFieldUniverse, MaxNameFields)}
        /\ wasm = NotEncoded
        /\ id_in \in {UserId("$x"), GensymGen(0)}
        /\ id_out = NoIdOut
        /\ MutateOff
        /\ ExpandOff
        /\ ComponentOff
        /\ ParseOff
        /\ WastOff

SpecNames == InitNames /\ [][NamesNext]_vars

\* encode_module on a module of one function with locals.
InitLocals ==
    /\ text_module \in
          {TextModule(Nothing,
                      <<InlineFunc(Nothing, Nothing, locals,
                                   <<BodyInstr("Nop", Nothing)>>)>>) :
              locals \in SeqsUpTo({Local(Nothing, ty) : ty \in {I32, I64, F32}}, MaxLocals)}
    /\ wasm = NotEncoded
    /\ IdOff
    /\ MutateOff
    /\ ExpandOff
    /\ ComponentOff
    /\ ParseOff
    /\ WastOff

SpecLocals == InitLocals /\ [][EncodeNext]_vars

\* encode_module on a resolved module of a function type and a function of
\* that type with locals.  The function refers to the type by index
\* (`index`); it has the inline signature too when the text had one, with
\* the parameters of the type, named or not.
InitLocalNames ==
    LET LocalUniverse ==
            { Local(Some(UserId("$x")), I32),
              Local(Nothing, I64),
              Local(Some(GensymGen(0)), I32) }
        ParamUniverse == {Nothing, Some(UserId("$p"))}
        FuncType(n) ==
            [kind |-> "Type", id |-> Nothing, name |-> Nothing, nparams |-> n]
        FuncOfType(params, locals) ==
            [kind |-> "Func", id |-> Nothing, name |-> Nothing, index |-> 0,
             params |-> params, locals |-> locals,
             instrs |-> <<BodyInstr("Nop", Nothing)>>]
    IN  /\ text_module \in
              {TextModule(Nothing, <<FuncType(n), FuncOfType(params, locals)>>) :
                  <<n, params>> \in
                      UNION {{<<k, Nothing>>}
                             \cup {<<k, Some(ps)>> :
                                      ps \in [1..k -> ParamUniverse]} :
                             k \in 0..MaxParams},
                  locals \in SeqsUpTo(LocalUniverse, MaxLocals)}
        /\ wasm = NotEncoded
        /\ IdOff
        /\ MutateOff
        /\ ExpandOff
        /\ ComponentOff
        /\ ParseOff
        /\ WastOff

SpecLocalNames == InitLocalNames /\ [][EncodeNext]_vars

\* The parser on a nest of module, component and instance types.
InitParse ==
    /\ tokens \in
          {Nest(outer, levels, wrap, pattern, leaf) :
              outer \in 0..1, levels \in 0..MaxLevels, wrap \in 1..2,
              pattern \in {"component", "instance", "alternate"}, leaf \in 0..1}
    /\ ppos = 0
    /\ open_parens = <<>>
    /\ entered = NoEntry
    /\ presult = None
    /\ MutateOff
    /\ ExpandOff
    /\ ComponentOff
    /\ EncodeOff
    /\ WastOff

SpecParse == InitParse /\ [][ParseNext]_vars

\* One call of Wast::parse.
InitWast ==
    LET
        \* One parenthesised directive of the text: its keyword, the action that
        \* follows as its tokens ((invoke "foo"), (get "g"), or a parenthesis that
        \* starts with another keyword) and the number of
        \* (f32.const nan:canonical) after the action.
        DirectiveTexts ==
            {[keyword |-> keyword, exec |-> etext, rest |-> rest] :
                keyword \in DirectiveKeywords,
                etext \in {<<"invoke", "foo">>, <<"get", "g">>, <<"register", "r">>},
                rest \in 0..MaxResults}
    IN  /\ wast_source \in
              UNION {[1..n -> DirectiveTexts] : n \in 0..MaxDirectives}
        /\ directives = <<>>
        /\ wresult = None
        /\ MutateOff
        /\ ExpandOff
        /\ ComponentOff
        /\ EncodeOff
        /\ ParseOff

SpecWast == InitWast /\ [][WastNext]_vars

\* expand on a field list, and expand again on its result.
InitExpand ==
    LET
        \* The fields a module handed to expand is made of.
        FieldUniverse ==
            { TypeField(Nothing, FuncDef(FtParam)),
              TypeField(Some(UserId("$t")), FuncDef(FtParamNamed)),
              TypeField(Nothing, [tag |-> "Struct"]),
              FuncField(TypeUse(Nothing, Some(FtParam)), <<>>),
              FuncField(TypeUse(Nothing, Some(FtParamNamed)),
                        <<Instr("CallIndirect", TypeUse(Nothing, Some(FtResult)))>>),
              FuncField(TypeUse(TypeT, Some(FtParam)),
                        <<Instr("Block", TypeUse(Nothing, Some(FtParamNamed)))>>),
              FuncField(TypeUse(Nothing, Nothing),
                        <<Instr("Block", TypeUse(Nothing, Nothing)),
                          Instr("Block", TypeUse(Nothing, Some(FtResult))),
                          Instr("Block", TypeUse(TypeT, Nothing))>>),
              ImportField("Func", TypeUse(Nothing, Some(FtParamNamed))),
              ImportField("Global", TypeUse(Nothing, Nothing)),
              [kind |-> "Tag", ty |-> TypeUse(Nothing, Some(FtResult))],
              [kind |-> "Global",
               instrs |-> <<Instr("ReturnCallIndirect", TypeUse(Nothing, Some(FtParam))),
                            Instr("Nop", TypeUse(Nothing, Nothing)),
                            Instr("FuncBind", TypeUse(Nothing, Nothing)),
                            Instr("CallIndirect", TypeUse(TypeT, Some(FtResult)))>>],
              [kind |-> "Memory"] }
    IN  /\ fields \in SeqsUpTo(FieldUniverse, MaxFields)
        /\ given = fields
        /\ epc = "idle"
        /\ cur = 0
        /\ expander = NewExpander(0)
        /\ pass = 1
        /\ first = <<>>
        /\ MutateOff
        /\ ComponentOff
        /\ EncodeOff
        /\ ParseOff
        /\ WastOff

SpecExpand == InitExpand /\ [][ExpandNext]_vars

\* A type production that has read its keyword and id stands before its
\* fields.
InitFields ==
    LET Items ==
            {Item(kw, TRUE) :
                kw \in {"func", "import", "export", "type", "alias", "start",
                        "empty", "atom"}}
            \cup {Item("export", FALSE), Item("type", FALSE)}
    IN  /\ tokens \in SeqsUpTo(Items, MaxTypeFields)
        /\ ppos = 0
        /\ open_parens \in {<<kind>> : kind \in TypeKinds}
        /\ entered = NoEntry
        /\ presult = None
        /\ MutateOff
        /\ ExpandOff
        /\ ComponentOff
        /\ EncodeOff
        /\ WastOff

\* The parser is straight-line code: an iteration that can run does run.
SpecFields ==
    /\ InitFields
    /\ [][FieldsNext]_vars
    /\ WF_vars(FieldsNext)

\* The parser stands before some tokens and looks for an inline import.
InitImport ==
    /\ tokens \in SeqsUpTo({"(", ")", "import", "string", "other"}, MaxImportTokens)
    /\ ppos = 0
    /\ open_parens = <<>>
    /\ entered = NoEntry
    /\ presult = None
    /\ MutateOff
    /\ ExpandOff
    /\ ComponentOff
    /\ EncodeOff
    /\ WastOff

SpecImport == InitImport /\ [][ImportNext]_vars

\* expand called on lists of type definitions, with and without id, mixed
\* with fields the header pass leaves alone.
InitHeader ==
    LET HeaderUniverse ==
            { TypeField(Nothing, FuncDef(FtParam)),
              TypeField(Some(UserId("$t")), FuncDef(FtParamNamed)),
              TypeField(Nothing, [tag |-> "Struct"]),
              FuncField(TypeUse(Nothing, Some(FtParam)),
                        <<Instr("Block", TypeUse(Nothing, Some(FtResult)))>>),
              ImportField("Func", TypeUse(Nothing, Some(FtResult))) }
    IN  /\ fields \in SeqsUpTo(HeaderUniverse, MaxFields)
        /\ given = fields
        /\ epc = "idle"
        /\ cur = 0
        /\ expander = NewExpander(0)
        /\ pass = 1
        /\ first = <<>>
        /\ MutateOff
        /\ ComponentOff
        /\ EncodeOff
        /\ ParseOff
        /\ WastOff

\* process is straight-line code: an iteration of its header loop that can
\* run does run, and so does the exit of the loop.
SpecExpandFair ==
    InitHeader /\ [][ExpandNext]_vars /\ WF_vars(HeaderStep) /\ WF_vars(HeaderDone)

\* ------------------------------------------------------------------------
\* Properties of PeepholeMutator::mutate
\* ------------------------------------------------------------------------

\* Some registered mutator answers can_mutate = true somewhere in the input.
AnySite ==
    \E f \in 1..Len(code_section.funcs) :
    \E idx \in 0..(Len(code_section.funcs[f].operators) - 1) :
    \E k \in 1..Len(peep_optimizers) :
        CanMutate(peep_optimizers[k], code_section.funcs[f].operators, idx)

\* The header, a body or an operator stream of the input fails to decode.
Malformed ==
    \/ ~code_section.header
    \/ \E f \in 1..Len(code_section.funcs) : code_section.funcs[f].state # Decodes

\* A structurally valid module with a non-empty code section: everything
\* decodes, there is a function, and every body has an operator.
StructurallyValid ==
    /\ ~Malformed
    /\ Len(code_section.funcs) >= 1
    /\ \A f \in 1..Len(code_section.funcs) :
          Len(code_section.funcs[f].operators) >= 1

\* C1: a successful mutate gives a code section with as many functions as
\* the input, in the same order, and every function but the chosen one is
\* the raw copy of the input's bytes of that function.
C1_MutationLocality ==
    result = "Ok" =>
        /\ module.present
        /\ Len(module.code) = Len(code_section.funcs)
        /\ \A i \in 1..Len(module.code) :
              IF i - 1 = selected[1]
              THEN module.code[i].kind = "function" /\ module.code[i].of = i - 1
              ELSE module.code[i] = [kind |-> "raw", bytes |-> code_section.funcs[i]]

\* C1 witness: a successful mutation of a module with two different
\* functions, one of them copied.
C1_Witness ==
    /\ result = "Ok"
    /\ Len(module.code) = 2
    /\ code_section.funcs[1] # code_section.funcs[2]
    /\ selected[1] = 0
    /\ module.code[2].kind = "raw"

C4_MalformedIsDecodeError ==
    (mpc = "done" /\ Malformed) => result = "DecodeError"

\* C5: in a successful mutation the selected mutator answered can_mutate =
\* true at the selected position and the site is recorded in its group; no
\* group is empty; exactly one function is re-encoded, by that mutator at
\* that position.
C5_SelectionIsApplicable ==
    /\ \A name \in DOMAIN applicable : Len(applicable[name]) >= 1
    /\ result = "Ok" =>
        /\ selected[3] \in Range(peep_optimizers)
        /\ selected[1] \in 0..(Len(code_section.funcs) - 1)
        /\ selected[2] \in 0..(Len(code_section.funcs[selected[1] + 1].operators) - 1)
        /\ CanMutate(selected[3], code_section.funcs[selected[1] + 1].operators,
                     selected[2])
        /\ selected[3] \in DOMAIN applicable
        /\ <<selected[1], selected[2]>> \in Range(applicable[selected[3]])
        /\ Cardinality({i \in 1..Len(module.code) :
                            module.code[i].kind = "function"}) = 1
        /\ \A i \in 1..Len(module.code) :
              module.code[i].kind = "function" =>
                  module.code[i] = [kind |-> "function", of |-> selected[1],
                                    at |-> selected[2], by |-> selected[3]]

\* C5 witness: a successful mutation by the second registered mutator, at a
\* position where the first one does not apply.
C5_Witness ==
    /\ result = "Ok"
    /\ selected[3] = OtherCodeMutator
    /\ ~CanMutate(SwapCommutativeOperator,
                  code_section.funcs[selected[1] + 1].operators, selected[2])

\* The function the outer fold turns to next has decoded.
NextFunctionDecodes ==
    /\ mpc = "scan"
    /\ pending # <<>>
    /\ code_section.funcs[Head(pending) + 1].state = Decodes

\* C30: when PeepholeMutator::can_mutate answers true, mutate draws from no
\* empty range: there is a function to draw, every function it decodes has
\* an operator to draw, and on a section that decodes mutate ends with a
\* module or a typed error, not with the panic of an empty range.
C30_NoEmptyRangeAfterCanMutate ==
    PeepholeCanMutate =>
        /\ mpc = "scan" => function_count >= 1
        /\ NextFunctionDecodes =>
              Len(code_section.funcs[Head(pending) + 1].operators) >= 1
        /\ (mpc = "done" /\ ~Malformed) => result # "Panic"

\* can_mutate answers true for a code section in which everything decodes,
\* and mutate has panicked.
PanicOnDecodedSection ==
    /\ PeepholeCanMutate
    /\ ~Malformed
    /\ mpc = "done"
    /\ result = "Panic"
    /\ \E f \in 1..Len(code_section.funcs) : code_section.funcs[f].operators = <<>>

\* The part of C30 that holds: with can_mutate true and an operator in
\* every function of a section that decodes, mutate does not panic.
NoPanicOnStructurallyValid ==
    (PeepholeCanMutate /\ StructurallyValid /\ mpc = "done") => result # "Panic"

\* ------------------------------------------------------------------------
\* Properties of the expander
\* ------------------------------------------------------------------------

\* The shape of a function type: parameter value types and result value
\* types, whatever the parameters are called.
Shape(ft) == <<[i \in 1..Len(ft.params) |-> ft.params[i].ty], ft.results>>

\* The shape a TypeUse stands for: an absent signature is the empty one.
UseShape(item) ==
    IF IsSome(item.inline) THEN Shape(Unwrap(item.inline))
    ELSE Shape(FunctionTypeDefault)

\* The type-use sites of a field list: <<i, 0>> is the TypeUse of field i
\* itself, <<i, k>> the one of its k-th instruction.
HasFieldUse(f) ==
    \/ f.kind \in {"Func", "Tag"}
    \/ f.kind = "Import" /\ f.item.kind \in {"Func", "Tag"}

HasInstrs(f) == f.kind \in {"Func", "Global", "Data", "Elem"}

Sites(fs) ==
    {<<i, 0>> : i \in {j \in 1..Len(fs) : HasFieldUse(fs[j])}}
    \cup UNION {{<<i, k>> : k \in {n \in 1..Len(fs[i].instrs) :
                     fs[i].instrs[n].op \in
                        {"Block", "CallIndirect", "ReturnCallIndirect", "FuncBind"}}} :
                i \in {j \in 1..Len(fs) : HasInstrs(fs[j])}}

UseAt(fs, p) ==
    IF p[2] = 0
    THEN (IF fs[p[1]].kind = "Import" THEN fs[p[1]].item.ty ELSE fs[p[1]].ty)
    ELSE fs[p[1]].instrs[p[2]].ty

IsBlockSite(fs, p) == p[2] > 0 /\ fs[p[1]].instrs[p[2]].op = "Block"

\* A block type that is not of the short form: it has a signature with a
\* parameter or more than one result.
MultiValue(item) ==
    /\ IsSome(item.inline)
    /\ ~(Len(Unwrap(item.inline).params) = 0 /\ Len(Unwrap(item.inline).results) <= 1)

\* The index a TypeUse carries, if any.
IndexOf(item) == IF IsSome(item.index) THEN Some(Unwrap(item.index).idx) ELSE Nothing

\* The sites of the claim that are written with an inline signature.
InlineSites(fs) ==
    {p \in Sites(fs) :
        /\ IsSome(UseAt(fs, p).inline)
        /\ IsBlockSite(fs, p) => MultiValue(UseAt(fs, p))}

\* The sites of the claim that were written without an explicit index.
IndexFreeSites(fs) ==
    {p \in Sites(fs) :
        /\ ~IsSome(UseAt(fs, p).index)
        /\ IsBlockSite(fs, p) => MultiValue(UseAt(fs, p))}

\* The type definitions expand appended to the list it was given.
Injected == SubSeq(fields, Len(given) + 1, Len(fields))

\* The shapes of the function type definitions of a field list.
DefinedShapes(fs) ==
    {Shape(fs[i].def.ty) : i \in {j \in 1..Len(fs) :
                                     fs[j].kind = "Type" /\ fs[j].def.tag = "Func"}}

\* At most one synthesized definition per shape, none for a shape that a
\* definition of the given list has.
InjectedOncePerShape ==
    /\ \A i \in 1..Len(Injected) :
          /\ Injected[i].kind = "Type"
          /\ Injected[i].def.tag = "Func"
          /\ IsSome(Injected[i].id) /\ IsGensym(Unwrap(Injected[i].id))
          /\ Shape(Injected[i].def.ty) \notin DefinedShapes(given)
    /\ \A i, j \in 1..Len(Injected) :
          Shape(Injected[i].def.ty) = Shape(Injected[j].def.ty) => i = j

\* C6 as stated: after expansion any two sites with inline signatures of
\* the same shape carry the same type index, and at most one definition is
\* synthesized per shape, none for an already defined shape.
C6_SameShapeSameIndex ==
    epc = "done" =>
        /\ \A p, q \in InlineSites(fields) :
              UseShape(UseAt(fields, p)) = UseShape(UseAt(fields, q)) =>
                  IndexOf(UseAt(fields, p)) = IndexOf(UseAt(fields, q))
        /\ InjectedOncePerShape

\* C6 amended: any two sites written without an explicit index whose
\* signatures have the same shape (an absent signature being the empty one)
\* carry the same type index after expansion; a site written with an index
\* keeps it; at most one definition is synthesized per shape, none for an
\* already defined shape.
C6_IndexFreeSameShapeSameIndex ==
    epc = "done" =>
        /\ \A p, q \in IndexFreeSites(given) :
              /\ IsSome(UseAt(fields, p).index)
              /\ UseShape(UseAt(given, p)) = UseShape(UseAt(given, q)) =>
                    IndexOf(UseAt(fields, p)) = IndexOf(UseAt(fields, q))
        /\ \A p \in Sites(given) :
              IsSome(UseAt(given, p).index) =>
                  IndexOf(UseAt(fields, p)) = IndexOf(UseAt(given, p))
        /\ InjectedOncePerShape

\* C6 witness: two sites written without index, with the same shape in
\* different text, share the index of one synthesized definition.
C6_Witness ==
    /\ epc = "done"
    /\ Len(Injected) >= 1
    /\ \E p, q \in IndexFreeSites(given) :
          /\ UseAt(given, p).inline = Some(FtParam)
          /\ UseAt(given, q).inline = Some(FtParamNamed)
          /\ IndexOf(UseAt(fields, p)) = Some(IndexId(Unwrap(Injected[1].id)))
          /\ IndexOf(UseAt(fields, q)) = IndexOf(UseAt(fields, p))

\* C7: expand on a list that expand has already processed changes nothing:
\* no field is added, no id, index or inline value changes, the order stays.
C7_SecondExpandChangesNothing ==
    pass = 2 =>
        /\ fields = first
        /\ expander.to_prepend = <<>>

\* C7 witness: the second expand has finished on a list that the first
\* one had changed and extended.
C7_Witness ==
    /\ pass = 2
    /\ epc = "done"
    /\ Len(first) > Len(given)
    /\ \E i \in 1..Len(given) : first[i] # given[i]

\* The block-type sites of a field list.
BlockSites(fs) == {p \in Sites(fs) : IsBlockSite(fs, p)}

\* The index of a TypeUse names a function type definition of the list
\* whose shape is the shape of the use.
IndexHasShapeOfUse(fs, item) ==
    /\ IsSome(item.index)
    /\ Unwrap(item.index).idx.tag = "Id"
    /\ \E i \in 1..Len(fs) :
          /\ fs[i].kind = "Type"
          /\ fs[i].def.tag = "Func"
          /\ fs[i].id = Some(Unwrap(item.index).idx.id)
          /\ Shape(fs[i].def.ty) = UseShape(item)

\* The outcome of encoding a block type once its index is resolved
\* against the list: the arm of the encoder, or "unknown type" when
\* resolution fails and nothing is encoded.
EncodedBlockType(fs, item) ==
    IF ~IsSome(item.index) THEN EncodeBlockType(item)
    ELSE LET n == ResolveTypeIndex(fs, Unwrap(item.index).idx)
         IN IF IsSome(n)
            THEN EncodeBlockType(
                     [item EXCEPT !.index = Some([Unwrap(@) EXCEPT !.idx = Unwrap(n)])])
            ELSE "unknown type"

\* C21: the block-type policy of expand.  A block type with an index is
\* left unchanged; one without index whose signature has no parameter and
\* at most one result is left unchanged; one with neither index nor
\* signature gets the empty signature and no index; any other gets the
\* index of a definition of its shape.  Definitions are synthesized only
\* for the shapes of the last case and of the other type uses written
\* without index.  Encoding a block type after expansion and index
\* resolution reaches neither panic of the encoder.
C21_BlockTypePolicy ==
    epc = "done" =>
        /\ \A p \in BlockSites(given) :
              LET g == UseAt(given, p)
                  f == UseAt(fields, p)
              IN /\ IsSome(g.index) => f = g
                 /\ (~IsSome(g.index) /\ IsSome(g.inline) /\ ~MultiValue(g)) => f = g
                 /\ (~IsSome(g.index) /\ ~IsSome(g.inline)) =>
                        f = TypeUse(Nothing, Some(FunctionTypeDefault))
                 /\ (~IsSome(g.index) /\ MultiValue(g)) =>
                        /\ f.inline = g.inline
                        /\ IndexHasShapeOfUse(fields, f)
                 /\ EncodedBlockType(fields, f) \notin
                        {"function type not filled in",
                         "multi-value block types should have an index"}
        /\ \A i \in 1..Len(Injected) :
              \E p \in IndexFreeSites(given) :
                  Shape(Injected[i].def.ty) = UseShape(UseAt(given, p))

\* C21 witness: a list with a block of each of the four cases has been
\* expanded, one definition was synthesized, and the encoder takes its
\* index arm, its 0x40 arm and its result-type arm.
C21_Witness ==
    /\ epc = "done"
    /\ Len(Injected) = 1
    /\ \E p \in BlockSites(given) : IsSome(UseAt(given, p).index)
    /\ \E p \in BlockSites(given) :
          /\ UseAt(given, p) = TypeUse(Nothing, Nothing)
          /\ EncodedBlockType(fields, UseAt(fields, p)) = "0x40"
    /\ \E p \in BlockSites(given) :
          /\ UseAt(given, p) = TypeUse(Nothing, Some(FtResult))
          /\ EncodedBlockType(fields, UseAt(fields, p)) = "result type"
    /\ \E p \in BlockSites(given) :
          /\ ~IsSome(UseAt(given, p).index)
          /\ MultiValue(UseAt(given, p))
          /\ EncodedBlockType(fields, UseAt(fields, p)) = "sleb index"

\* The positions of the function type definitions of a shape in a list.
DefsOfShape(fs, shape) ==
    {i \in 1..Len(fs) :
        /\ fs[i].kind = "Type"
        /\ fs[i].def.tag = "Func"
        /\ Shape(fs[i].def.ty) = shape}

\* The textually first of a non-empty set of positions or sites.
FirstPosition(S) == CHOOSE i \in S : \A j \in S : i <= j

SiteBefore(p, q) == p[1] < q[1] \/ (p[1] = q[1] /\ p[2] <= q[2])

FirstSite(S) == CHOOSE p \in S : \A q \in S : SiteBefore(p, q)

\* The sites written without index that have a shape.
SitesOfShape(fs, shape) ==
    {p \in IndexFreeSites(fs) : UseShape(UseAt(fs, p)) = shape}

\* C22: first seen wins, explicit definitions first.  When the first field
\* is expanded every function type definition of the list is registered,
\* each shape under the id of its textually first definition.  After
\* expansion a use written without index whose shape a definition of the
\* list has carries the id of the textually first such definition,
\* wherever the definition stands, and nothing is synthesized for the
\* shape; the uses of a shape without definition share one synthesized
\* definition, and the synthesized definitions stand in the order of the
\* first use of their shapes.
C22_FirstSeenExplicitFirst ==
    /\ epc = "body" =>
          \A shape \in DefinedShapes(fields) :
              /\ shape \in DOMAIN expander.func_type_to_idx
              /\ Some(expander.func_type_to_idx[shape].id) =
                     fields[FirstPosition(DefsOfShape(fields, shape))].id
    /\ epc = "done" =>
          /\ \A p \in IndexFreeSites(given) :
                LET shape == UseShape(UseAt(given, p))
                IN IF shape \in DefinedShapes(given)
                   THEN /\ IndexOf(UseAt(fields, p)) =
                              Some(IndexId(Unwrap(
                                  fields[FirstPosition(DefsOfShape(given, shape))].id)))
                        /\ \A i \in 1..Len(Injected) :
                              Shape(Injected[i].def.ty) # shape
                   ELSE \E i \in 1..Len(Injected) :
                          /\ Shape(Injected[i].def.ty) = shape
                          /\ IndexOf(UseAt(fields, p)) =
                                 Some(IndexId(Unwrap(Injected[i].id)))
          /\ \A i, j \in 1..Len(Injected) :
                i < j =>
                    /\ FirstSite(SitesOfShape(given, Shape(Injected[i].def.ty))) #
                           FirstSite(SitesOfShape(given, Shape(Injected[j].def.ty)))
                    /\ SiteBefore(
                           FirstSite(SitesOfShape(given, Shape(Injected[i].def.ty))),
                           FirstSite(SitesOfShape(given, Shape(Injected[j].def.ty))))

\* C22 witness: a function with an inline signature stands before two
\* definitions of its shape that have different ids; after expansion it
\* carries the id of the first of the two and nothing was synthesized.
C22_Witness ==
    /\ epc = "done"
    /\ Len(given) = 3
    /\ given[1].kind = "Func"
    /\ ~IsSome(given[1].ty.index)
    /\ DefsOfShape(given, UseShape(given[1].ty)) = {2, 3}
    /\ fields[2].id # fields[3].id
    /\ IndexOf(fields[1].ty) = Some(IndexId(Unwrap(fields[2].id)))
    /\ Injected = <<>>

\* C22 witness of the other half: two synthesized definitions, the first
\* one shared by two uses.
C22_WitnessInlineOnly ==
    /\ epc = "done"
    /\ Len(Injected) = 2
    /\ Cardinality(SitesOfShape(given, Shape(Injected[1].def.ty))) >= 2

\* The list the running expand was called with.
Original == IF pass = 1 THEN given ELSE first

\* The ids of the type definitions of a list, by position.
TypePositions(fs) == {i \in 1..Len(fs) : fs[i].kind = "Type"}

\* One iteration of the header loop: the fields before the cursor and the
\* fields after the processed one stay as they are, what the iteration
\* generated stands immediately before the processed field, the cursor moves
\* past both, and one field less is left to process.
HeaderIteration ==
    (epc = "header" /\ epc' = "header") =>
        LET n == Len(fields') - Len(fields)
        IN /\ n >= 0
           /\ cur' = cur + n + 1
           /\ SubSeq(fields', 1, cur) = SubSeq(fields, 1, cur)
           /\ SubSeq(fields', cur' + 1, Len(fields')) =
                  SubSeq(fields, cur + 2, Len(fields))
           /\ fields'[cur'].kind = fields[cur + 1].kind
           /\ Len(fields') - cur' = Len(fields) - cur - 1

\* The fields not yet processed by the header loop are the tail of the
\* original list, untouched.
HeaderRemainder ==
    epc = "header" =>
        /\ cur <= Len(fields)
        /\ Len(fields) - cur <= Len(Original)
        /\ SubSeq(fields, cur + 1, Len(fields)) =
               SubSeq(Original, Len(Original) - (Len(fields) - cur) + 1, Len(Original))

\* When the header loop has ended every type definition has an id: the one
\* it was written with, or a gensym no other type definition has; no other
\* field has changed.
HeaderResult ==
    (epc = "body" /\ cur = 0) =>
        /\ Len(fields) = Len(Original)
        /\ \A i \in 1..Len(fields) :
              IF Original[i].kind = "Type"
              THEN /\ IsSome(fields[i].id)
                   /\ fields[i] = [Original[i] EXCEPT !.id = fields[i].id]
                   /\ IsSome(Original[i].id) => fields[i].id = Original[i].id
                   /\ ~IsSome(Original[i].id) =>
                         /\ IsGensym(Unwrap(fields[i].id))
                         /\ \A j \in TypePositions(fields) \ {i} :
                               fields[j].id # fields[i].id
              ELSE fields[i] = Original[i]

\* C23: the header pass terminates; it processes each field of the list it
\* was given once, from left to right; what an iteration generates is put
\* immediately before the field it processed and is not processed itself;
\* after the pass every type definition has an id, a fresh gensym where it
\* had none and its own where it had one.
C23_HeaderPass ==
    /\ [][HeaderIteration]_vars
    /\ [](HeaderRemainder /\ HeaderResult)
    /\ (epc = "header") ~> (epc = "body")

\* C23 witness: the header pass has ended on a list of three fields with a
\* type definition that had no id and one that had.
C23_Witness ==
    /\ epc = "body"
    /\ cur = 0
    /\ pass = 1
    /\ Len(given) = 3
    /\ \E i, j \in TypePositions(given) :
          /\ ~IsSome(given[i].id) /\ IsGensym(Unwrap(fields[i].id))
          /\ IsSome(given[j].id) /\ fields[j].id = given[j].id

\* What expand leaves of a field whatever it fills in: its kind, the
\* definition of a type, the operators of a body.
Skeleton(f) ==
    [kind |-> f.kind,
     def |-> IF f.kind = "Type" THEN Some(f.def) ELSE Nothing,
     ops |-> IF HasInstrs(f) THEN [k \in 1..Len(f.instrs) |-> f.instrs[k].op]
             ELSE <<>>]

Skeletons(fs) == [i \in 1..Len(fs) |-> Skeleton(fs[i])]

IsPrefix(s, t) == Len(s) <= Len(t) /\ SubSeq(t, 1, Len(s)) = s

\* The steps of process around its body loop: the loop is entered from
\* the header loop with the cursor at the end of the list; an iteration
\* keeps the length of the list and the skeleton of every field and only
\* adds to the end of to_prepend; the end of process appends to_prepend to
\* the list and leaves it empty.
BodyPassStep ==
    /\ (epc # "body" /\ epc' = "body") => (epc = "header" /\ cur = Len(fields))
    /\ (epc = "body" /\ epc' = "body") =>
          /\ Skeletons(fields') = Skeletons(fields)
          /\ IsPrefix(expander.to_prepend, expander'.to_prepend)
    /\ (epc = "body" /\ epc' = "done") =>
          /\ cur = Len(fields)
          /\ fields' = fields \o expander.to_prepend
          /\ expander'.to_prepend = <<>>

\* When the header loop has handed over, every type definition of the list
\* has an id and every defined shape is registered.
HeaderFinished ==
    epc = "body" =>
        /\ \A i \in TypePositions(fields) : IsSome(fields[i].id)
        /\ DefinedShapes(fields) \subseteq DOMAIN expander.func_type_to_idx

\* After process the fields it was given stand first, in their order and
\* number; the synthesized definitions follow them, one per shape, in the
\* order in which the shapes were first needed; to_prepend is empty.
BodyPassResult ==
    epc = "done" =>
        LET added == SubSeq(fields, Len(Original) + 1, Len(fields))
            FirstNeed(i) == FirstSite(SitesOfShape(Original, Shape(added[i].def.ty)))
        IN /\ Len(fields) >= Len(Original)
           /\ Skeletons(SubSeq(fields, 1, Len(Original))) = Skeletons(Original)
           /\ \A i \in 1..Len(added) :
                 /\ added[i].kind = "Type"
                 /\ SitesOfShape(Original, Shape(added[i].def.ty)) # {}
           /\ \A i, j \in 1..Len(added) :
                 i < j => /\ FirstNeed(i) # FirstNeed(j)
                          /\ SiteBefore(FirstNeed(i), FirstNeed(j))
           /\ expander.to_prepend = <<>>

\* C24: the body pass starts only when the header pass has finished for
\* the whole list; the types interned during the body pass are appended
\* after all existing fields, in the order in which they were first needed;
\* the fields that were there keep their order and number; to_prepend is
\* empty when processing completes.
C24_BodyPass ==
    /\ [][BodyPassStep]_vars
    /\ [](HeaderFinished /\ BodyPassResult)

\* C24 witness: process has ended on a list of three fields and appended
\* two synthesized definitions after them.
C24_Witness ==
    /\ epc = "done"
    /\ pass = 1
    /\ Len(given) = 3
    /\ Len(fields) = 5
    /\ fields[4].kind = "Type" /\ fields[5].kind = "Type"
    /\ Shape(fields[4].def.ty) # Shape(fields[5].def.ty)

\* The type uses that are not block types: those of functions, of function
\* and tag imports, of tags, and of func.bind, call_indirect and
\* return_call_indirect.
UseSites(fs) == Sites(fs) \ BlockSites(fs)

\* C25: after expansion every type use of a function, a function or tag
\* import, a tag, a func.bind, a call_indirect or a return_call_indirect
\* has an index.  A use written without index keeps its signature and gets
\* the index of a definition of its shape, the empty shape when it has no
\* signature.  A use written with an index keeps index and signature,
\* whatever the shape of the signature, and nothing is synthesized for it.
C25_EveryTypeUseIndexed ==
    epc = "done" =>
        /\ \A p \in UseSites(given) :
              LET g == UseAt(given, p)
                  f == UseAt(fields, p)
              IN /\ IsSome(f.index)
                 /\ f.inline = g.inline
                 /\ IF IsSome(g.index)
                    THEN IndexOf(f) = IndexOf(g)
                    ELSE IndexHasShapeOfUse(fields, f)
        /\ \A i \in 1..Len(Injected) :
              SitesOfShape(given, Shape(Injected[i].def.ty)) # {}

\* C25 witness: a call_indirect written with the index of a definition of
\* another shape than its signature has kept both, a func.bind written
\* without index and signature carries the index of a synthesized
\* definition of the empty shape, and nothing of the shape of the
\* call_indirect's signature was synthesized.
C25_Witness ==
    /\ epc = "done"
    /\ \E p \in UseSites(given) :
          /\ IsSome(UseAt(given, p).index)
          /\ IsSome(UseAt(given, p).inline)
          /\ UseAt(fields, p).inline = UseAt(given, p).inline
          /\ \E i \in TypePositions(fields) :
                /\ IndexOf(UseAt(fields, p)) = Some(IndexId(Unwrap(fields[i].id)))
                /\ fields[i].def.tag = "Func"
                /\ Shape(fields[i].def.ty) # UseShape(UseAt(given, p))
          /\ \A i \in 1..Len(Injected) :
                Shape(Injected[i].def.ty) # UseShape(UseAt(given, p))
    /\ \E p \in UseSites(given), i \in 1..Len(Injected) :
          /\ given[p[1]].instrs[p[2]].op = "FuncBind"
          /\ UseAt(given, p) = TypeUse(Nothing, Nothing)
          /\ IndexOf(UseAt(fields, p)) = Some(IndexId(Unwrap(Injected[i].id)))
          /\ Shape(Injected[i].def.ty) = Shape(FunctionTypeDefault)

\* ------------------------------------------------------------------------
\* Properties of the field loops of the type productions
\* ------------------------------------------------------------------------

\* An iteration of a field loop has run and the production goes on.
IterationRan == entered.kind # None /\ presult = None

\* C27: every loop of the type productions consumes a token in each
\* iteration or returns an error, and so the production returns; an
\* instance type with a parenthesised field whose keyword is none of
\* export, type and alias is refused with a syntax error.
C27_FieldLoopsTerminate ==
    /\ [](IterationRan => ppos > entered.pos)
    /\ <>(presult # None)
    /\ [](\A i \in 1..Len(tokens) :
             (/\ open_parens = <<"instance">>
              /\ ppos = i - 1
              /\ entered.kind = "instance"
              /\ entered.pos = i - 1
              /\ tokens[i].kw \notin {"export", "type", "alias", "atom"})
                 => presult = "syntax error")

\* The component type and module type loops do what C27 says of them.
OtherFieldLoopsTerminate ==
    /\ []((IterationRan /\ open_parens # <<"instance">>) => ppos > entered.pos)
    /\ (open_parens # <<"instance">>) ~> (presult # None)

\* The instance type loop has gone round on a field it has no arm for.
InstanceLoopStuck ==
    /\ open_parens = <<"instance">>
    /\ tokens = <<Item("start", TRUE)>>
    /\ entered = [depth |-> 1, pos |-> 0, kind |-> "instance"]
    /\ ppos = 0
    /\ presult = None

\* ------------------------------------------------------------------------
\* Properties of the inline import
\* ------------------------------------------------------------------------

\* The tokens of the group at the start of the text: up to its first
\* closing parenthesis.
GroupLength ==
    LET closes == {n \in 1..Len(tokens) : tokens[n] = ")"}
    IN IF closes = {} THEN 0 ELSE CHOOSE n \in closes : \A k \in closes : n <= k

\* Peek has said yes and parse has run.
ParsedAfterPeek == entered.kind = "peek true" /\ presult # None

\* C28: Peek and Parse agree for InlineImport.  Whenever peek has answered
\* true, parse succeeds and consumes exactly the group peek looked at,
\* also the group with a module string and no field string; peek leaves
\* the cursor where it was.
C28_PeekAndParseAgree ==
    /\ (entered # NoEntry /\ presult = None) => ppos = entered.pos
    /\ ParsedAfterPeek => (presult = "Ok" /\ ppos = entered.pos + GroupLength)

\* The part of C28 that holds: the group with both strings.
PeekAndParseAgreeWithField ==
    /\ (entered # NoEntry /\ presult = None) => ppos = entered.pos
    /\ (ParsedAfterPeek /\ GroupLength = 5) =>
          (presult = "Ok" /\ ppos = entered.pos + GroupLength)
    /\ (entered.kind = "peek false" /\ presult # None) => presult = "syntax error"

\* Peek has accepted (import "m") and parse has been called on it.
ParsedWithoutField ==
    /\ ParsedAfterPeek
    /\ SubSeq(tokens, 1, GroupLength) = <<"(", "import", "string", ")">>

\* ------------------------------------------------------------------------
\* Properties of the component front end
\* ------------------------------------------------------------------------

\* Some field of the component holds a symbolic index.
HoldsIndexId(c) ==
    \E i \in 1..Len(c.fields) : \E k \in 1..Len(c.fields[i].refs) :
        c.fields[i].refs[k].tag = "Id"

\* The constructs the component encoder has no encoding for.
Unencodable ==
    {"Import", "Export", "Instance", "Alias", "Module", "Component", "Func"}

\* C8: after resolve returns Ok on a text component no field holds an
\* Index::Id.
C8_NoIdAfterResolve ==
    (cresult.op = "resolve" /\ cresult.status = "Ok" /\ component.kind = "Text")
        => ~HoldsIndexId(component)

\* C9: encode on a text component with a construct that has no binary
\* encoding returns an error or a non-empty binary, never Ok with empty
\* bytes.
C9_NoSilentEmptyEncoding ==
    (/\ cresult.op = "encode"
     /\ component.kind = "Text"
     /\ \E i \in 1..Len(component.fields) :
            component.fields[i].kind \in Unencodable)
        => (cresult.status # "Ok" \/ cresult.bytes # <<>>)

\* ------------------------------------------------------------------------
\* Properties of the module encoder
\* ------------------------------------------------------------------------

\* The fixed order: type, import, function, table, memory, tag, global,
\* export, start, element, data count, code, data, and the name section
\* (custom, id 0) last.
CanonicalOrder == <<1, 2, 3, 4, 5, 13, 6, 7, 8, 9, 12, 10, 11, 0>>

Rank(id) == CHOOSE r \in 1..Len(CanonicalOrder) : CanonicalOrder[r] = id

\* The sections of the output that are not custom sections of the module:
\* the canonical ones and the name section.
NonCustom == SelectSeq(wasm.sections, LAMBDA sec : sec.tag # "custom")

\* The field kind a section id is made from.
KindOfSection ==
    [i \in {1, 2, 3, 4, 5, 13, 6, 7, 8, 9, 10, 11} |->
        CASE i = 1 -> "Type" [] i = 2 -> "Import" [] i = 3 -> "Func"
          [] i = 4 -> "Table" [] i = 5 -> "Memory" [] i = 13 -> "Tag"
          [] i = 6 -> "Global" [] i = 7 -> "Export" [] i = 8 -> "Start"
          [] i = 9 -> "Elem" [] i = 10 -> "Func" [] i = 11 -> "Data"]

\* C10: whatever the order of the fields of a text module, its non-custom
\* sections come out in the fixed order, each kind at most once, and a
\* kind without fields gives no section.
C10_FixedSectionOrder ==
    (wasm.done /\ text_module.kind = "Text") =>
        /\ \A i, j \in 1..Len(NonCustom) :
              i < j => Rank(NonCustom[i].id) < Rank(NonCustom[j].id)
        /\ \A i \in 1..Len(NonCustom) :
              NonCustom[i].id \in DOMAIN KindOfSection =>
                  OfKind(text_module.fields, KindOfSection[NonCustom[i].id]) # <<>>

\* C10 witness: a module written data, function, type is encoded as type,
\* function, code, data.
C10_Witness ==
    /\ wasm.done
    /\ Len(text_module.fields) = 3
    /\ text_module.fields[1].kind = "Data"
    /\ text_module.fields[2].kind = "Func"
    /\ text_module.fields[3].kind = "Type"
    /\ [i \in 1..Len(NonCustom) |-> NonCustom[i].id] = <<1, 3, 10, 11>>

\* The section id a custom section anchor stands for.
AnchorId ==
    [x \in CustomPlaceAnchors |->
        CASE x = "Type" -> 1 [] x = "Import" -> 2 [] x = "Func" -> 3
          [] x = "Table" -> 4 [] x = "Memory" -> 5 [] x = "Tag" -> 13
          [] x = "Global" -> 6 [] x = "Export" -> 7 [] x = "Start" -> 8
          [] x = "Elem" -> 9 [] x = "Code" -> 10 [] x = "Data" -> 11]

\* The custom fields of the module, in declaration order.
DeclaredCustoms == OfKind(text_module.fields, "Custom")

\* The custom sections of the output of one place, in output order.
EmittedAt(place) ==
    LET at == SelectSeq(wasm.sections,
                        LAMBDA sec : sec.tag = "custom" /\ sec.contents.place = place)
    IN [i \in 1..Len(at) |-> at[i].contents]

IsCustomAt(i, place) ==
    /\ wasm.sections[i].tag = "custom"
    /\ wasm.sections[i].contents.place = place

\* The indices of the output that hold a section of the module proper:
\* a canonical section, the data count or the name section.
Proper == {j \in 1..Len(wasm.sections) : wasm.sections[j].tag # "custom"}

\* Output index i is at the slot of anchor x, on the given side of it:
\* the sections ranked below x come before i, those ranked above it come
\* after, section x itself is on the right side, and only custom sections
\* of the same place lie between i and section x.
AtSlot(i, side, x) ==
    LET r == Rank(AnchorId[x])
    IN /\ \A j \in Proper :
             LET rj == Rank(wasm.sections[j].id)
             IN /\ rj < r => j < i
                /\ rj > r => j > i
                /\ rj = r => (IF side = "Before" THEN i < j ELSE j < i)
       /\ \A j \in Proper :
             Rank(wasm.sections[j].id) = r =>
                 \A k \in 1..Len(wasm.sections) :
                     ((i < k /\ k < j) \/ (j < k /\ k < i)) =>
                         IsCustomAt(k, wasm.sections[i].contents.place)

\* Output index i, a custom section, is where its place says.
PlacedAsDeclared(i) ==
    LET place == wasm.sections[i].contents.place
    IN CASE place.pos = "BeforeFirst" -> \A j \in Proper : i < j
         [] place.pos = "AfterLast" ->
                \A j \in 1..Len(wasm.sections) :
                    ~IsCustomAt(j, AfterLast) => j < i
         [] OTHER -> AtSlot(i, place.pos, place.anchor)

\* C11: every custom section of a text module is emitted once, at its
\* declared place, and the custom sections of one place keep their
\* declaration order.
C11_CustomsAtDeclaredPlace ==
    (wasm.done /\ text_module.kind = "Text") =>
        /\ \A place \in CustomPlaces :
              EmittedAt(place) =
                  SelectSeq(DeclaredCustoms, LAMBDA c : c.place = place)
        /\ Len(SelectSeq(wasm.sections, LAMBDA sec : sec.tag = "custom"))
              = Len(DeclaredCustoms)
        /\ \A i \in 1..Len(wasm.sections) :
              wasm.sections[i].tag = "custom" => PlacedAsDeclared(i)

\* C11 witness: two custom sections of the place Before(Start), declared
\* b2 then b before the start field, come out b2, b, start.
C11_Witness ==
    /\ wasm.done
    /\ Len(text_module.fields) = 3
    /\ text_module.fields[1] = CustomField("b2", Before("Start"))
    /\ text_module.fields[2] = CustomField("b", Before("Start"))
    /\ text_module.fields[3].kind = "Start"
    /\ Len(wasm.sections) = 3
    /\ wasm.sections[1].contents.custom = "b2"
    /\ wasm.sections[2].contents.custom = "b"
    /\ wasm.sections[3].id = 8

\* The anchors whose section is not in the output.
AbsentAnchors ==
    {x \in CustomPlaceAnchors :
        \A j \in Proper : wasm.sections[j].id # AnchorId[x]}

\* C12: a custom section anchored to a section the module does not have
\* is still emitted, at the slot of that section in the fixed order; one
\* placed Before(Start) in a module without start comes after the export
\* section and before the element section.
C12_AbsentAnchorKeepsSlot ==
    (wasm.done /\ text_module.kind = "Text") =>
        /\ \A x \in AbsentAnchors : \A side \in {"Before", "After"} :
              LET place == [pos |-> side, anchor |-> x]
              IN /\ Len(EmittedAt(place)) =
                        Len(SelectSeq(DeclaredCustoms, LAMBDA c : c.place = place))
                 /\ \A i \in 1..Len(wasm.sections) :
                        IsCustomAt(i, place) => AtSlot(i, side, x)
        /\ OfKind(text_module.fields, "Start") = <<>> =>
              \A i \in 1..Len(wasm.sections) :
                  IsCustomAt(i, Before("Start")) =>
                      \A j \in Proper :
                          /\ wasm.sections[j].id = 7 => j < i
                          /\ wasm.sections[j].id = 9 => i < j

\* C12 witness: element, custom Before(Start), export, and no start: the
\* custom section comes out between export and element.
C12_Witness ==
    /\ wasm.done
    /\ Len(text_module.fields) = 3
    /\ text_module.fields[1].kind = "Elem"
    /\ text_module.fields[2] = CustomField("b", Before("Start"))
    /\ text_module.fields[3].kind = "Export"
    /\ Len(wasm.sections) = 3
    /\ wasm.sections[1].id = 7
    /\ IsCustomAt(2, Before("Start"))
    /\ wasm.sections[3].id = 9

\* Some function body of the module uses memory.init or data.drop.
UsesBulkMemory ==
    \E i \in 1..Len(text_module.fields) :
        /\ text_module.fields[i].kind = "Func"
        /\ \E k \in 1..Len(text_module.fields[i].instrs) :
              text_module.fields[i].instrs[k].op \in {"MemoryInit", "DataDrop"}

\* The output indices of the sections of one id.
SectionsOf(id) ==
    {j \in Proper : wasm.sections[j].tag = "section" /\ wasm.sections[j].id = id}

\* C13: the data count section is emitted exactly when some function body
\* uses memory.init or data.drop; it then sits after the element section
\* and before the code section and holds the number of data segments.
C13_DataCountIffBulkMemory ==
    (wasm.done /\ text_module.kind = "Text") =>
        /\ (SectionsOf(12) # {}) <=> UsesBulkMemory
        /\ Cardinality(SectionsOf(12)) <= 1
        /\ \A c \in SectionsOf(12) :
              /\ wasm.sections[c].contents =
                     <<Len(OfKind(text_module.fields, "Data"))>>
              /\ \A j \in SectionsOf(9) : j < c
              /\ \E j \in SectionsOf(10) : c < j
              /\ \A j \in SectionsOf(10) : c < j

\* C13 witness: a module with an element segment, a body that uses
\* memory.init and no data segment has a data count section holding 0
\* between its element and code sections.
C13_Witness ==
    /\ wasm.done
    /\ text_module.kind = "Text"
    /\ UsesBulkMemory
    /\ OfKind(text_module.fields, "Data") = <<>>
    /\ \E e \in SectionsOf(9) : \E c \in SectionsOf(12) : \E f \in SectionsOf(10) :
          /\ e < c /\ c < f
          /\ wasm.sections[c].contents = <<0>>

\* ------------------------------------------------------------------------
\* Properties of the name section
\* ------------------------------------------------------------------------

\* The subsections of the name section of the output; none when there is
\* no name section.
NameSubsections ==
    LET at == SelectSeq(wasm.sections, LAMBDA sec : sec.tag = "name")
    IN IF at = <<>> THEN <<>> ELSE at[1].contents

\* What the name section holds under a subsection id.
Written(id) ==
    LET at == SelectSeq(NameSubsections, LAMBDA sub : sub.id = id)
    IN IF at = <<>> THEN <<>> ELSE at[1].data

\* The subsection id of an index space.
SubsectionOf ==
    [k \in NameSpaces \ {"Tag"} |->
        CASE k = "Func" -> 1 [] k = "Type" -> 4 [] k = "Table" -> 5
          [] k = "Memory" -> 6 [] k = "Global" -> 7 [] k = "Elem" -> 8
          [] k = "Data" -> 9]

\* The fields of one index space, in index order.
FieldsOfSpace(k) == SelectSeq(text_module.fields, LAMBDA f : NameSpace(f) = k)

\* The entities a function names besides itself: parameters and locals,
\* and labels.
LocalsOf(f) == IF f.kind = "Func" THEN ParamIds(f) \o f.locals ELSE <<>>
LabelsOf(f) == IF f.kind = "Func" THEN LabelIds(f.instrs) ELSE <<>>

\* The entity has a name to preserve: an annotation, or an id that is
\* not a gensym.
Preserved(e) == IsSome(e.name) \/ (IsSome(e.id) /\ ~IsGensym(Unwrap(e.id)))

\* The string s is the annotation of the entity or, without annotation,
\* the name of its id, which is then not a gensym.
NameOfEntity(s, e) ==
    IF IsSome(e.name) THEN s = Unwrap(e.name)
    ELSE IsSome(e.id) /\ ~IsGensym(Unwrap(e.id)) /\ s = Unwrap(e.id).name

\* Every entry of a written list names the entity of its index.
ListNamesEntities(list, entities) ==
    \A i \in 1..Len(list) :
        /\ list[i][1] + 1 \in 1..Len(entities)
        /\ NameOfEntity(list[i][2], entities[list[i][1] + 1])

\* An entity with a gensym id is in the written list exactly when it is
\* annotated.
GensymsOnlyAnnotated(list, entities) ==
    \A n \in 1..Len(entities) :
        (IsSome(entities[n].id) /\ IsGensym(Unwrap(entities[n].id))) =>
            ((\E i \in 1..Len(list) : list[i][1] = n - 1)
                <=> IsSome(entities[n].name))

\* C14: no name of the name section comes from a gensym: every written
\* name is the annotation of its entity or the name of its id that is not
\* a gensym, an entity with a gensym id is named only when annotated, and
\* encoding an Id that is a gensym fails its assertion.
C14_NoGensymInNameSection ==
    /\ (wasm.done /\ text_module.kind = "Text") =>
          /\ Written(0) # <<>> =>
                NameOfEntity(Written(0)[1],
                             [id |-> text_module.id, name |-> text_module.name])
          /\ \A k \in DOMAIN SubsectionOf :
                /\ ListNamesEntities(Written(SubsectionOf[k]), FieldsOfSpace(k))
                /\ GensymsOnlyAnnotated(Written(SubsectionOf[k]), FieldsOfSpace(k))
          /\ \A i \in 1..Len(Written(2)) :
                LET f == FieldsOfSpace("Func")[Written(2)[i][1] + 1]
                IN /\ ListNamesEntities(Written(2)[i][2], LocalsOf(f))
                   /\ GensymsOnlyAnnotated(Written(2)[i][2], LocalsOf(f))
          /\ \A i \in 1..Len(Written(3)) :
                LET f == FieldsOfSpace("Func")[Written(3)[i][1] + 1]
                IN /\ ListNamesEntities(Written(3)[i][2], LabelsOf(f))
                   /\ GensymsOnlyAnnotated(Written(3)[i][2], LabelsOf(f))
    /\ id_out.done =>
          (id_out.status = "AssertionFailed" <=> IsGensym(id_in))

\* C14 witness: of two type definitions with gensym ids the annotated one
\* alone is in the name section, and Id::encode has failed on a gensym.
C14_Witness ==
    /\ wasm.done
    /\ text_module.fields = <<Field("Type", Some(GensymGen(0)), Nothing),
                              Field("Type", Some(GensymGen(1)), Some("ty"))>>
    /\ Written(4) = <<<<1, "ty">>>>
    /\ IsGensym(id_in)
    /\ id_out.status = "AssertionFailed"

\* The entities of the module that the name section can name: the module,
\* the fields of every index space but the tags, and the parameters,
\* locals and labels of the functions.
NameableEntities ==
    {[id |-> text_module.id, name |-> text_module.name]}
    \cup UNION {{[id |-> f.id, name |-> f.name]} \cup Range(LocalsOf(f))
                    \cup Range(LabelsOf(f)) :
                f \in {g \in Range(text_module.fields) :
                          NameSpace(g) \in DOMAIN SubsectionOf}}

\* The tags of the module, defined or imported.
TagEntities ==
    {[id |-> f.id, name |-> f.name] :
        f \in {g \in Range(text_module.fields) : NameSpace(g) = "Tag"}}

\* Every string the name section holds.
WrittenNames ==
    Range(Written(0))
    \cup UNION {{Written(SubsectionOf[k])[i][2] :
                    i \in 1..Len(Written(SubsectionOf[k]))} :
                k \in DOMAIN SubsectionOf}
    \cup UNION {{Written(id)[i][2][j][2] : j \in 1..Len(Written(id)[i][2])} :
                <<id, i>> \in {<<2, n>> : n \in 1..Len(Written(2))}
                          \cup {<<3, n>> : n \in 1..Len(Written(3))}}

\* C15: the name section is emitted exactly when the module, a function,
\* local, label, type, table, memory, global, element or data segment has
\* a preserved name; tag names do not count and are never written.
C15_NameSectionIffPreservedName ==
    (wasm.done /\ text_module.kind = "Text") =>
        /\ (\E i \in 1..Len(wasm.sections) : wasm.sections[i].tag = "name")
              <=> (\E e \in NameableEntities : Preserved(e))
        /\ \A i \in 1..Len(NameSubsections) : NameSubsections[i].id \in 0..9
        /\ \A e \in TagEntities : \A s \in WrittenNames : ~NameOfEntity(s, e)

\* C15 witness: a module whose only preserved name is that of a tag is
\* encoded without name section.
C15_Witness ==
    /\ wasm.done
    /\ text_module.id = Nothing
    /\ text_module.fields = <<Field("Tag", Some(UserId("$e")), Nothing)>>
    /\ \A i \in 1..Len(wasm.sections) : wasm.sections[i].tag # "name"

\* The index space an item belongs to: that of the imported item for an
\* import, none for an export, a start or a custom section.
IndexSpaceOf(f) ==
    IF f.kind = "Import" THEN f.item
    ELSE IF f.kind \in {"Func", "Table", "Memory", "Global", "Tag", "Type",
                        "Elem", "Data"}
    THEN f.kind
    ELSE None

\* The number of fields of the index space of field n that stand before it.
Preceding(fs, n) ==
    Cardinality({j \in 1..(n - 1) : IndexSpaceOf(fs[j]) = IndexSpaceOf(fs[n])})

\* The fields of an index space that have a preserved name.
NamedOfSpace(fs, k) ==
    {n \in 1..Len(fs) : IndexSpaceOf(fs[n]) = k /\ Preserved(fs[n])}

\* A recorded list holds, in field order, one entry for every named field
\* of the space: the number of fields of the space before it, and its name.
RecordsSpace(list, fs, k) ==
    /\ \A n \in NamedOfSpace(fs, k) :
          \E i \in 1..Len(list) :
              /\ list[i][1] = Preceding(fs, n)
              /\ NameOfEntity(list[i][2], fs[n])
    /\ \A i \in 1..Len(list) :
          \E n \in NamedOfSpace(fs, k) : list[i][1] = Preceding(fs, n)
    /\ \A i, j \in 1..Len(list) : i < j => list[i][1] < list[j][1]

\* C26: the index recorded for a named function, table, memory, global,
\* tag, type, element or data segment is the number of fields of the same
\* index space before it, an import counting in the space of the item it
\* imports and an export, start or custom section in none; the name
\* section holds the recorded lists of every space it has a subsection for.
C26_NameIndicesFollowFieldOrder ==
    (wasm.done /\ text_module.kind = "Text") =>
        LET names == FindModuleNames(text_module.id, text_module.name,
                                     text_module.fields)
        IN /\ \A k \in NameSpaces :
                 RecordsSpace(names.lists[k], text_module.fields, k)
           /\ \A k \in DOMAIN SubsectionOf :
                 Written(SubsectionOf[k]) = names.lists[k]

\* C26 witness: a named function after a function import has index 1 in
\* the name section.
C26_Witness ==
    /\ wasm.done
    /\ Len(text_module.fields) = 2
    /\ text_module.fields[1].kind = "Import"
    /\ text_module.fields[1].item = "Func"
    /\ text_module.fields[2].kind = "Func"
    /\ Written(1) = <<<<1, "$g">>>>

\* C26 witness of the fields that count nowhere: a named global after an
\* export has index 0.
C26_WitnessExport ==
    /\ wasm.done
    /\ Len(text_module.fields) = 2
    /\ text_module.fields[1].kind = "Export"
    /\ Written(7) = <<<<0, "$v">>>>

\* The number of parameters of the type of a function: the type definition
\* its index refers to says it.
ParamCount(f) == text_module.fields[f.index + 1].nparams

\* The local names the name section holds for the function of index n.
WrittenLocals(n) ==
    LET at == SelectSeq(Written(2), LAMBDA e : e[1] = n)
    IN IF at = <<>> THEN <<>> ELSE at[1][2]

\* The name section names every named local of the functions in `which`
\* under the number of parameters of the function's type plus the position
\* of the local among the declared locals.
LocalsNamedByIndex(which) ==
    \A n \in 1..Len(FieldsOfSpace("Func")) :
        LET f == FieldsOfSpace("Func")[n]
        IN which[f] =>
             \A j \in 1..Len(f.locals) :
                 Preserved(f.locals[j]) =>
                     \E i \in 1..Len(WrittenLocals(n - 1)) :
                         /\ WrittenLocals(n - 1)[i][1] = ParamCount(f) + j - 1
                         /\ NameOfEntity(WrittenLocals(n - 1)[i][2], f.locals[j])

\* C29: the index recorded in the name section for a named local is the
\* number of parameters of the function's type plus the position of the
\* local among the declared locals, also when the function gives its type
\* by index only, without inline signature.
C29_LocalIndexAfterParams ==
    (wasm.done /\ text_module.kind = "Text") =>
        LocalsNamedByIndex([f \in Range(FieldsOfSpace("Func")) |-> TRUE])

\* The part of C29 that the encoder keeps: the functions written with an
\* inline signature.
LocalIndexAfterInlineParams ==
    (wasm.done /\ text_module.kind = "Text") =>
        LocalsNamedByIndex([f \in Range(FieldsOfSpace("Func")) |-> IsSome(f.params)])

\* A function of a type with a parameter, written without inline
\* signature, has a named local.
LocalOfIndexOnlyFunction ==
    /\ wasm.done
    /\ \E f \in Range(FieldsOfSpace("Func")) :
          /\ ~IsSome(f.params)
          /\ ParamCount(f) = 1
          /\ f.locals = <<Local(Some(UserId("$x")), I32)>>
          /\ Written(2) = <<<<0, <<<<0, "$x">>>>>>>>

\* ------------------------------------------------------------------------
\* Properties of the encoding of locals
\* ------------------------------------------------------------------------

\* The (count, type) pairs written for the functions, in function order.
EmittedLocals ==
    LET at == SelectSeq(wasm.sections,
                        LAMBDA sec : sec.tag = "section" /\ sec.id = 10)
    IN IF at = <<>> THEN <<>>
       ELSE [i \in 1..Len(at[1].contents) |-> at[1].contents[i].locals]

\* The types a list of (count, type) pairs stands for.
RECURSIVE ExpandPairs(_)
ExpandPairs(pairs) ==
    IF pairs = <<>> THEN <<>>
    ELSE [i \in 1..Head(pairs)[1] |-> Head(pairs)[2]] \o ExpandPairs(Tail(pairs))

RECURSIVE SumCounts(_)
SumCounts(pairs) ==
    IF pairs = <<>> THEN 0 ELSE Head(pairs)[1] + SumCounts(Tail(pairs))

\* C16: the locals of every function are written as (count, type) pairs
\* with counts of at least 1, no two adjacent pairs of the same type,
\* counts that sum to the number of locals, and whose expansion is the
\* sequence of the local types.
C16_LocalsRunLengthCompressed ==
    (wasm.done /\ text_module.kind = "Text") =>
        LET funcs == OfKind(text_module.fields, "Func")
        IN /\ Len(EmittedLocals) = Len(funcs)
           /\ \A f \in 1..Len(EmittedLocals) :
                 LET pairs == EmittedLocals[f]
                 IN /\ \A i \in 1..Len(pairs) : pairs[i][1] >= 1
                    /\ \A i \in 1..(Len(pairs) - 1) : pairs[i][2] # pairs[i + 1][2]
                    /\ SumCounts(pairs) = Len(funcs[f].locals)
                    /\ ExpandPairs(pairs) =
                          [i \in 1..Len(funcs[f].locals) |-> funcs[f].locals[i].ty]

\* C16 witness: locals i32 i32 i64 i32 are written (2, i32) (1, i64)
\* (1, i32).
C16_Witness ==
    /\ wasm.done
    /\ Len(text_module.fields) = 1
    /\ [i \in 1..Len(text_module.fields[1].locals) |->
           text_module.fields[1].locals[i].ty] = <<I32, I32, I64, I32>>
    /\ EmittedLocals = <<<< <<2, I32>>, <<1, I64>>, <<1, I32>> >>>>

\* ------------------------------------------------------------------------
\* Properties of Component::validate
\* ------------------------------------------------------------------------

\* The start fields of the component, in field order.
StartFields == SelectSeq(component.fields, LAMBDA f : f.kind = "Start")

\* C17: validate returns the error "multiple start sections found" exactly
\* for a text component with more than one start field, and Ok otherwise,
\* binary components included.
C17_ValidateRejectsSecondStart ==
    cresult.op = "validate" =>
        IF component.kind = "Text" /\ Len(StartFields) > 1
        THEN cresult.status = "multiple start sections found"
        ELSE cresult.status = "Ok"

\* C17 witness: validate has rejected a text component with two start
\* fields.
C17_Witness ==
    /\ cresult.op = "validate"
    /\ component.kind = "Text"
    /\ Len(StartFields) = 2
    /\ cresult.status = "multiple start sections found"

\* ------------------------------------------------------------------------
\* Properties of the type productions of the parser
\* ------------------------------------------------------------------------

\* The type productions the parser is inside of.
ActiveTypeProductions ==
    Len(SelectSeq(open_parens, LAMBDA o : o \in TypeKinds))

\* C18: a module, component or instance type that starts at a depth
\* greater than 100 fails with the nesting error of its kind and consumes
\* nothing, one that starts at a depth of at most 100 does not fail so,
\* and the parser is never inside more than 101 of these productions.
C18_DeepNestingRejected ==
    /\ entered.kind # None =>
          IF entered.depth > 100
          THEN /\ presult = TooDeepError(entered.kind)
               /\ ppos = entered.pos
               /\ ParensDepth = entered.depth
          ELSE presult \in {None, "Ok"}
    /\ presult \notin {None, "Ok", "Off"} => entered.kind # None
    /\ ActiveTypeProductions <= 101

\* C18 witness: a component type that starts at depth 101, inside 50
\* type productions, has failed with its error.
C18_Witness ==
    /\ presult = "component type nesting too deep"
    /\ entered.depth = 101
    /\ ppos = entered.pos
    /\ ActiveTypeProductions = 50

\* ------------------------------------------------------------------------
\* C19: each legacy NaN directive keyword parses to an AssertReturn
\* directive with exactly one expected result: the legacy canonical or
\* arithmetic NaN pattern for the scalar forms, and a V128 pattern whose 4
\* (f32x4) or 2 (f64x2) lanes are all the canonical, respectively
\* arithmetic, NaN pattern for the vector forms.
\* ------------------------------------------------------------------------

\* The directives parsed from a legacy NaN keyword: the loop pushes one
\* directive for each parenthesis of the text, in order.
LegacyParsed ==
    {i \in 1..Len(directives) :
        /\ LooksLikeDirectives
        /\ wast_source[i].keyword \in LegacyNanKeywords}

\* What the claim expects of the one result, from the keyword alone.
LegacyExpectation(keyword, expected) ==
    LET nan == IF keyword \in {"assert_return_canonical_nan",
                               "assert_return_canonical_nan_f32x4",
                               "assert_return_canonical_nan_f64x2"}
               THEN CanonicalNan ELSE ArithmeticNan
        lanes == CASE keyword \in {"assert_return_canonical_nan_f32x4",
                                   "assert_return_arithmetic_nan_f32x4"} -> 4
                   [] keyword \in {"assert_return_canonical_nan_f64x2",
                                   "assert_return_arithmetic_nan_f64x2"} -> 2
                   [] OTHER -> 0
    IN IF lanes = 0
       THEN expected.expr = (IF nan = CanonicalNan THEN "LegacyCanonicalNaN"
                             ELSE "LegacyArithmeticNaN")
       ELSE /\ expected.expr = "V128"
            /\ expected.pat.shape = (IF lanes = 4 THEN "F32x4" ELSE "F64x2")
            /\ Len(expected.pat.lanes) = lanes
            /\ \A j \in 1..lanes : expected.pat.lanes[j] = nan

C19_LegacyNanDirectives ==
    \A i \in LegacyParsed :
        /\ directives[i].type = "AssertReturn"
        /\ Len(directives[i].results) = 1
        /\ LegacyExpectation(wast_source[i].keyword, directives[i].results[1])

\* A script of one arithmetic f32x4 directive has been parsed to the end.
C19_Witness ==
    /\ wresult = "Ok"
    /\ Len(directives) = 1
    /\ Len(wast_source) = 1
    /\ wast_source[1].keyword = "assert_return_arithmetic_nan_f32x4"
    /\ directives[1].type = "AssertReturn"
    /\ Len(directives[1].results) = 1
    /\ Len(directives[1].results[1].pat.lanes) = 4

\* ------------------------------------------------------------------------
\* C20: the scan visits every (function, operator-index) position of the
\* code section exactly once, the functions in the order f0, f0+1, ...,
\* count-1, 0, ..., f0-1 and the operators of each function in the same
\* pattern from a drawn start; the set of recorded applicable sites is the
\* same whatever the starts were, and is complete before a site is
\* selected.
\* ------------------------------------------------------------------------

\* Every position of the code section.
AllPositions ==
    UNION {{<<f, idx>> :
                idx \in 0..(Len(code_section.funcs[f + 1].operators) - 1)} :
           f \in 0..(Len(code_section.funcs) - 1)}

\* start, start+1, ..., count-1, 0, ..., start-1
ChainOrder(start, count) ==
    [i \in 1..count |-> IF start + i - 1 < count THEN start + i - 1
                        ELSE start + i - 1 - count]

\* The place of function f in the order of the functions.
PlaceOf(f) ==
    CHOOSE i \in 1..function_count :
        ChainOrder(function_to_mutate, function_count)[i] = f

\* The operator indices visited in function f, in the order of the visits.
VisitsOf(f) ==
    LET of_f == SelectSeq(visited, LAMBDA pos : pos[1] = f)
    IN [i \in 1..Len(of_f) |-> of_f[i][2]]

\* The sites the scan has recorded, and the sites where a registered
\* mutator answers can_mutate = true.
RecordedSites ==
    UNION {{<<applicable[name][i][1], applicable[name][i][2], name>> :
                i \in 1..Len(applicable[name])} :
           name \in DOMAIN applicable}

ApplicableSites ==
    UNION {{<<pos[1], pos[2], name>> :
                name \in {n \in Range(peep_optimizers) :
                    CanMutate(n, code_section.funcs[pos[1] + 1].operators, pos[2])}} :
           pos \in AllPositions}

\* The scan has run to its end.
ScanComplete == mpc \in {"select", "emit"} \/ result \in {"Ok", "NotMatchingPeepholes"}

C20_ScanVisitsEachPositionOnce ==
    /\ \A a, b \in 1..Len(visited) : visited[a] = visited[b] => a = b
    /\ \A a, b \in 1..Len(visited) :
          a < b => PlaceOf(visited[a][1]) <= PlaceOf(visited[b][1])
    /\ \A name \in DOMAIN applicable :
          \A a, b \in 1..Len(applicable[name]) :
              applicable[name][a] = applicable[name][b] => a = b
    /\ RecordedSites \subseteq ApplicableSites
    /\ selected # NoSelection => ScanComplete
    /\ ScanComplete =>
          /\ Range(visited) = AllPositions
          /\ Len(visited) = Cardinality(AllPositions)
          /\ \A f \in 0..(function_count - 1) :
                \E start \in 0..(Len(code_section.funcs[f + 1].operators) - 1) :
                    VisitsOf(f) =
                        ChainOrder(start, Len(code_section.funcs[f + 1].operators))
          /\ RecordedSites = ApplicableSites

\* C20 witness: a finished scan of two functions that began at the second
\* function and at the second operator of it, with sites recorded.
C20_Witness ==
    /\ mpc = "select"
    /\ function_count = 2
    /\ function_to_mutate = 1
    /\ visited = <<<<1, 1>>, <<1, 0>>, <<0, 0>>>>
    /\ Cardinality(RecordedSites) >= 2

====
